---------------------------- MODULE Spec2Model ----------------------------
(***************************************************************************)
(* Model of the OCR income-verification service (Aashish23092/ocr).        *)
(*                                                                         *)
(* Text is modelled as a sequence of one-character strings, so that        *)
(* lower-casing, stripping, substring tests and word splitting are         *)
(* computed the way the Go code computes them.                             *)
(*                                                                         *)
(* The module holds several specifications over one set of variables:      *)
(*   SpecNames   utils.CompareNames applied to bounded pairs of names      *)
(*   SpecCross   IncomeService.CrossCheck applied to bounded record lists  *)
(*   SpecDoc     the extraction cascades of IncomeService / AadhaarService *)
(*   SpecBatch   IncomeService.VerifyIncome: the concurrent batch          *)
(*   SpecParse   utils.ParseSalarySlip applied to bounded texts            *)
(* Each specification leaves the variables of the others at their idle     *)
(* value.                                                                  *)
(***************************************************************************)
EXTENDS Integers, Sequences, FiniteSets, TLC

VARIABLES
    \* --- SpecNames: one call of CompareNames(a, b)
    nmA, nmB, nmPhase, nmResult,
    \* --- SpecCross: one call of CrossCheck(slips, stmts)
    ccSlips, ccStmts, ccPhase, ccResult,
    \* --- SpecDoc: one call of an extraction cascade on one job;
    \*     cdFs is the set of temporary image files on disk, cdCalls the
    \*     collaborators called so far, in order
    cdJob, cdPhase, cdOut, cdFs, cdCalls,
    \* --- SpecBatch: one call of VerifyIncome; mainPc and docIdx are the
    \*     caller's position, taskPc[i] the position of the task of
    \*     document i, taskResult[i] its local result, taskSeen[i] the slice
    \*     it read for its append, mu the task holding the lock (0: free),
    \*     wg the wait group's counter
    metadataOK, documents, mainPc, docIdx, taskPc, taskResult, taskSeen,
    mu, wg, salarySlips, bankStatements, errors, response,
    \* --- SpecParse: one call of ParseSalarySlip(ocrText)
    psText, psPhase, psResult

parseVars == <<psText, psPhase, psResult>>

nameVars == <<nmA, nmB, nmPhase, nmResult>>
crossVars == <<ccSlips, ccStmts, ccPhase, ccResult>>

docVars == <<cdJob, cdPhase, cdOut, cdFs, cdCalls>>

batchVars ==
    <<metadataOK, documents, mainPc, docIdx, taskPc, taskResult, taskSeen,
      mu, wg, salarySlips, bankStatements, errors, response>>

vars == <<nameVars, crossVars, docVars, batchVars, parseVars>>

\* the idle value of each group of variables
NamesIdle ==
    /\ nmA = <<>>
    /\ nmB = <<>>
    /\ nmPhase = "idle"
    /\ nmResult = FALSE

CrossIdle ==
    /\ ccSlips = <<>>
    /\ ccStmts = <<>>
    /\ ccPhase = "idle"
    /\ ccResult = <<>>

DocIdle ==
    /\ cdJob = <<>>
    /\ cdPhase = "idle"
    /\ cdOut = <<>>
    /\ cdFs = {}
    /\ cdCalls = <<>>

ParseIdle ==
    /\ psText = <<>>
    /\ psPhase = "idle"
    /\ psResult = <<>>

BatchIdle ==
    /\ metadataOK = FALSE
    /\ documents = <<>>
    /\ mainPc = "idle"
    /\ docIdx = 0
    /\ taskPc = <<>>
    /\ taskResult = <<>>
    /\ taskSeen = <<>>
    /\ mu = 0
    /\ wg = 0
    /\ salarySlips = <<>>
    /\ bankStatements = <<>>
    /\ errors = <<>>
    /\ response = <<>>

(***************************************************************************)
(* Bounds of the model.                                                    *)
(***************************************************************************)
\* longest name enumerated exhaustively over NameAlphabet
MaxNameLen == 3
\* most salary slips handed to one CrossCheck call
MaxSlips == 2
\* most pages a PDF rasterizes to
MaxPages == 2

(***************************************************************************)
(* Strings.                                                                *)
(***************************************************************************)
UpperLetters == <<"A","B","C","D","E","F","G","H","I","J","K","L","M",
                  "N","O","P","Q","R","S","T","U","V","W","X","Y","Z">>
LowerLetters == <<"a","b","c","d","e","f","g","h","i","j","k","l","m",
                  "n","o","p","q","r","s","t","u","v","w","x","y","z">>

\* strings.ToLower on one (ASCII) character
ToLowerChar(c) ==
    IF \E i \in 1..Len(UpperLetters) : UpperLetters[i] = c
    THEN LowerLetters[CHOOSE i \in 1..Len(UpperLetters) : UpperLetters[i] = c]
    ELSE c

\* strings.ToLower
ToLower(s) == [i \in 1..Len(s) |-> ToLowerChar(s[i])]

\* strings.ReplaceAll(s, old, "") for a one-character old
RECURSIVE RemoveChar(_, _)
RemoveChar(s, old) ==
    IF s = <<>> THEN <<>>
    ELSE IF Head(s) = old THEN RemoveChar(Tail(s), old)
    ELSE <<Head(s)>> \o RemoveChar(Tail(s), old)

\* strings.Contains(s, sub)
Contains(s, sub) ==
    \E i \in 0..(Len(s) - Len(sub)) : SubSeq(s, i + 1, i + Len(sub)) = sub

\* the least number of a non-empty set of numbers
Least(S) == CHOOSE x \in S : \A y \in S : x <= y

\* unicode.IsSpace, on the white space the model's alphabet has
IsSpace(c) == c \in {" ", "\t", "\n"}

\* strings.Fields: the maximal runs of non-space characters, in order
RECURSIVE FieldsFrom(_, _, _)
FieldsFrom(s, cur, acc) ==
    IF s = <<>> THEN (IF cur = <<>> THEN acc ELSE Append(acc, cur))
    ELSE IF IsSpace(Head(s))
         THEN FieldsFrom(Tail(s), <<>>, IF cur = <<>> THEN acc ELSE Append(acc, cur))
         ELSE FieldsFrom(Tail(s), Append(cur, Head(s)), acc)

Fields(s) == FieldsFrom(s, <<>>, <<>>)

\* strings.Split(s, sep) for a one-character separator
RECURSIVE SplitFrom(_, _, _, _)
SplitFrom(s, sep, cur, acc) ==
    IF s = <<>> THEN Append(acc, cur)
    ELSE IF Head(s) = sep THEN SplitFrom(Tail(s), sep, <<>>, Append(acc, cur))
    ELSE SplitFrom(Tail(s), sep, Append(cur, Head(s)), acc)

Split(s, sep) == SplitFrom(s, sep, <<>>, <<>>)

\* the character class [A-Za-z]
Letters ==
    {UpperLetters[i] : i \in 1..Len(UpperLetters)} \cup
    {LowerLetters[i] : i \in 1..Len(LowerLetters)}

Digits == {"0", "1", "2", "3", "4", "5", "6", "7", "8", "9"}

\* \s of a regular expression
RegexSpace == {" ", "\t", "\n", "\r", "\f"}

\* the word is at position p of the text, in any case
MatchesAt(text, p, word) ==
    /\ p >= 1
    /\ p + Len(word) - 1 <= Len(text)
    /\ ToLower(SubSeq(text, p, p + Len(word) - 1)) = ToLower(word)

\* the first position from p on whose character is not in S
RECURSIVE SkipWhile(_, _, _)
SkipWhile(text, p, S) ==
    IF p <= Len(text) /\ text[p] \in S THEN SkipWhile(text, p + 1, S) ELSE p

AllDigits(text, p, q) == q <= Len(text) /\ \A k \in p..q : text[k] \in Digits

(***************************************************************************)
(* utils.NormalizeString and utils.CompareNames (ocr_parser.go).           *)
(***************************************************************************)
NormalizeString(s) == RemoveChar(RemoveChar(ToLower(s), " "), ".")

\* the inner loops of CompareNames: how many words x of wa have some word
\* y of wb with Contains(y, x) or Contains(x, y)
MatchCount(wa, wb) ==
    Cardinality({i \in 1..Len(wa) :
        \E j \in 1..Len(wb) : Contains(wb[j], wa[i]) \/ Contains(wa[i], wb[j])})

\* mutant of RatioAtLeastHalf: the ratio must exceed one half
RatioAboveHalf(match, n) == IF n = 0 THEN FALSE ELSE 2 * match > n

\* float64(match)/float64(len(wa)) >= 0.5 ; 0/0 is NaN, and NaN >= 0.5 is false
RatioAtLeastHalf(match, n) == IF n = 0 THEN FALSE ELSE 2 * match >= n

CompareNames(a, b) ==
    IF a = <<>> \/ b = <<>> THEN FALSE
    ELSE LET a2 == NormalizeString(a)
             b2 == NormalizeString(b)
         IN  IF a2 = b2 THEN TRUE
             ELSE IF Contains(a2, b2) \/ Contains(b2, a2) THEN TRUE
             ELSE LET fa == Fields(ToLower(a))
                      fb == Fields(ToLower(b))
                      \* if len(wa) > len(wb) { wa, wb = wb, wa }
                      wa == IF Len(fa) > Len(fb) THEN fb ELSE fa
                      wb == IF Len(fa) > Len(fb) THEN fa ELSE fb
                  IN  RatioAtLeastHalf(MatchCount(wa, wb), Len(wa))

(***************************************************************************)
(* Names used as inputs.                                                   *)
(***************************************************************************)
JohnDoe   == <<"J","o","h","n"," ","D","o","e">>
JaneDoe   == <<"J","a","n","e"," ","D","o","e">>
MrJohnDoe == <<"M","R"," ","J","O","H","N"," ","D","O","E">>
DoeJohn   == <<"D","o","e"," ","J","o","h","n">>
JDoe      == <<"J","."," ","D","o","e">>
RaviKumar == <<"R","a","v","i"," ","K","u","m","a","r">>
\* three words each, sharing only some of them
QPZ       == <<"q"," ","p"," ","z">>
PqRT      == <<"p","q"," ","r"," ","t">>
AnnLeeRoy == <<"a","n","n"," ","l","e","e"," ","r","o","y">>
AnnKaySim == <<"a","n","n"," ","k","a","y"," ","s","i","m">>
TabOnly   == <<"\t">>

ExampleNames ==
    {JohnDoe, JaneDoe, MrJohnDoe, DoeJohn, JDoe, RaviKumar,
     QPZ, PqRT, AnnLeeRoy, AnnKaySim, TabOnly}

NameAlphabet == {"a", "B", " ", "."}

RECURSIVE SeqsUpTo(_, _)
SeqsUpTo(S, n) ==
    IF n = 0 THEN {<<>>}
    ELSE LET shorter == SeqsUpTo(S, n - 1)
         IN  shorter \cup {Append(s, c) : s \in shorter, c \in S}

Names == SeqsUpTo(NameAlphabet, MaxNameLen) \cup ExampleNames

(***************************************************************************)
(* SpecNames: CompareNames applied to every pair of Names.                 *)
(***************************************************************************)
NamesInit ==
    /\ nmA \in Names
    /\ nmB \in Names
    /\ nmPhase = "input"
    /\ nmResult = FALSE
    /\ CrossIdle
    /\ DocIdle
    /\ BatchIdle
    /\ ParseIdle

CallCompareNames ==
    /\ nmPhase = "input"
    /\ nmResult' = CompareNames(nmA, nmB)
    /\ nmPhase' = "done"
    /\ UNCHANGED <<nmA, nmB>>
    /\ UNCHANGED <<crossVars, docVars, batchVars, parseVars>>

NamesNext == CallCompareNames

SpecNames == NamesInit /\ [][NamesNext]_vars

(***************************************************************************)
(* The fuzzy-name rule as the specification words it, stated over index    *)
(* sets instead of loops.                                                  *)
(***************************************************************************)
\* lowercase, spaces and periods removed
Normalised(s) == SelectSeq(ToLower(s), LAMBDA c : c \notin {" ", "."})

\* x occurs in y as a contiguous piece
IsSubstringOf(x, y) ==
    \/ x = <<>>
    \/ \E i \in 1..Len(y) : \E j \in i..Len(y) : SubSeq(y, i, j) = x

\* the words of s: the positions <<i, j>> of its maximal space-free runs
WordRuns(s) ==
    {r \in (1..Len(s)) \X (1..Len(s)) :
        /\ r[1] <= r[2]
        /\ \A k \in r[1]..r[2] : ~IsSpace(s[k])
        /\ (r[1] = 1 \/ IsSpace(s[r[1] - 1]))
        /\ (r[2] = Len(s) \/ IsSpace(s[r[2] + 1]))}

WordAt(s, r) == SubSeq(ToLower(s), r[1], r[2])

\* at least 50% of the words of `few` match (as substring, either direction)
\* some word of `many`
HalfOfWordsMatch(few, many) ==
    LET fr == WordRuns(few)
        mr == WordRuns(many)
        hit == {r \in fr : \E q \in mr :
                   \/ IsSubstringOf(WordAt(few, r), WordAt(many, q))
                   \/ IsSubstringOf(WordAt(many, q), WordAt(few, r))}
    IN  Cardinality(fr) > 0 /\ 2 * Cardinality(hit) >= Cardinality(fr)

\* the name with fewer words is compared against the other; when both have
\* the same number of words the first name's words are the ones counted
FuzzyNameRule(a, b) ==
    \/ Normalised(a) = Normalised(b)
    \/ IsSubstringOf(Normalised(a), Normalised(b))
    \/ IsSubstringOf(Normalised(b), Normalised(a))
    \/ IF Cardinality(WordRuns(a)) <= Cardinality(WordRuns(b))
       THEN HalfOfWordsMatch(a, b)
       ELSE HalfOfWordsMatch(b, a)

\* C3: CompareNames("John Doe", "Jane Doe") returns false: two two-word
\* names sharing only the surname are not a name match.
C3_JohnJaneNoMatch ==
    (nmPhase = "done" /\ nmA = JohnDoe /\ nmB = JaneDoe) => (nmResult = FALSE)

StripSpaces(s) == RemoveChar(s, " ")

\* "%.2f" of an amount in hundredths: the whole part and two decimals
FormatFixed2(p) == [whole |-> p \div 100, frac |-> p % 100]

\* fmt.Sprintf("Missing credit for %s: %.2f", slip.PayMonth, slip.NetSalary)
MissingCreditEntry(slip) ==
    [label |-> "Missing credit for", payMonth |-> slip.PayMonth,
     amount |-> FormatFixed2(slip.NetSalary)]

\* mutant of NameMatchOf: the statement's name is compared with itself
NameMatchOfSelf(slips, stmt) ==
    \E i \in 1..Len(slips) :
        CompareNames(stmt.AccountHolderName, stmt.AccountHolderName)

\* the name loop: some slip name matches the statement's account holder
NameMatchOf(slips, stmt) ==
    \E i \in 1..Len(slips) :
        CompareNames(slips[i].EmployeeName, stmt.AccountHolderName)

\* mutant of AccountMatchOf: the account numbers are compared as written
AccountMatchOfNoStrip(slips, stmt) ==
    \E i \in 1..Len(slips) :
        /\ slips[i].AccountNumber # <<>>
        /\ stmt.AccountNumber # <<>>
        /\ slips[i].AccountNumber = stmt.AccountNumber

\* the account loop
AccountMatchOf(slips, stmt) ==
    \E i \in 1..Len(slips) :
        /\ slips[i].AccountNumber # <<>>
        /\ stmt.AccountNumber # <<>>
        /\ StripSpaces(slips[i].AccountNumber) = StripSpaces(stmt.AccountNumber)

\* mutant of HasMatchingCredit: the credit flag is not looked at
HasMatchingAmount(stmt, slip) ==
    \E k \in 1..Len(stmt.Transactions) :
        stmt.Transactions[k].Amount = slip.NetSalary

\* the inner loop of the salary-credit check: found
HasMatchingCredit(stmt, slip) ==
    \E k \in 1..Len(stmt.Transactions) :
        /\ stmt.Transactions[k].IsCredit
        /\ stmt.Transactions[k].Amount = slip.NetSalary

\* the outer loop of the salary-credit check, in slip order
RECURSIVE MissingCreditsOf(_, _)
MissingCreditsOf(slips, stmt) ==
    IF slips = <<>> THEN <<>>
    ELSE LET slip == Head(slips)
             rest == MissingCreditsOf(Tail(slips), stmt)
         IN  IF slip.NetSalary > 0 /\ ~HasMatchingCredit(stmt, slip)
             THEN <<MissingCreditEntry(slip)>> \o rest
             ELSE rest

NoNotes == <<>>

\* the notes of a verdict made without a bank statement
NoStatementNotes == <<"No bank statements provided for cross-check">>

CrossCheck(slips, stmts) ==
    IF Len(stmts) = 0
    THEN [NameMatch |-> FALSE, NameSimilarity |-> 0, AccountMatch |-> FALSE,
          MissingSalaryCredits |-> <<>>,
          Notes |-> NoStatementNotes]
    ELSE LET stmt == stmts[1]
         IN  [NameMatch |-> NameMatchOf(slips, stmt),
              NameSimilarity |-> IF NameMatchOf(slips, stmt) THEN 1 ELSE 0,
              AccountMatch |-> AccountMatchOf(slips, stmt),
              MissingSalaryCredits |-> MissingCreditsOf(slips, stmt),
              Notes |-> <<>>]

(***************************************************************************)
(* Records used as inputs.                                                 *)
(***************************************************************************)
Acct1       == <<"1","2","3","4","5","6","7","8","9","0">>
Acct1Spaced == <<"1","2","3","4"," ","5","6","7","8","9","0">>
Acct1Tabbed == <<"1","2","3","4","\t","5","6","7","8","9","0">>
Acct2       == <<"1","2","3","4","5","6","7","8","9","1">>
Acct3       == <<"0","9","8","7","6","5","4","3","2","1">>
AcctBlank   == <<" ">>

\* 50000.00 and 40000.00
Amount50k == 5000000
Amount40k == 4000000

Slip(n, a, s, m) ==
    [EmployeeName |-> n, AccountNumber |-> a, NetSalary |-> s, PayMonth |-> m]

SlipValues ==
    {Slip(JohnDoe, a, s, "October 2025") :
        a \in {<<>>, Acct1, Acct1Spaced, Acct1Tabbed, AcctBlank}, s \in {0, Amount50k}}
    \cup {Slip(RaviKumar, Acct2, Amount40k, "September 2025"),
          Slip(<<>>, Acct1, 0 - Amount50k, "")}

Tx(c, amt) == [IsCredit |-> c, Amount |-> amt]

TxLists ==
    {<<>>,
     <<Tx(TRUE, Amount50k)>>,
     <<Tx(TRUE, Amount40k)>>,
     <<Tx(FALSE, Amount50k)>>,
     <<Tx(FALSE, Amount50k), Tx(TRUE, Amount50k)>>,
     <<Tx(TRUE, Amount40k), Tx(FALSE, Amount50k)>>}

Stmt(n, a, txs) ==
    [AccountHolderName |-> n, AccountNumber |-> a, Transactions |-> txs]

StmtValues ==
    {Stmt(n, a, txs) : n \in {JohnDoe, JaneDoe},
                       a \in {<<>>, Acct1, Acct2, AcctBlank}, txs \in TxLists}

\* a statement that matches everything, to follow the reference statement
OtherStmt == Stmt(JohnDoe, Acct1, <<Tx(TRUE, Amount50k), Tx(TRUE, Amount40k)>>)

SlipLists == SeqsUpTo(SlipValues, MaxSlips)

StmtLists ==
    {<<>>} \cup {<<t>> : t \in StmtValues} \cup {<<t, OtherStmt>> : t \in StmtValues}

(***************************************************************************)
(* SpecCross: CrossCheck applied to the bounded record lists.              *)
(***************************************************************************)
CrossInit ==
    /\ ccSlips \in SlipLists
    /\ ccStmts \in StmtLists
    /\ ccPhase = "input"
    /\ ccResult = <<>>
    /\ NamesIdle
    /\ DocIdle
    /\ BatchIdle
    /\ ParseIdle

CallCrossCheck ==
    /\ ccPhase = "input"
    /\ ccResult' = CrossCheck(ccSlips, ccStmts)
    /\ ccPhase' = "done"
    /\ UNCHANGED <<ccSlips, ccStmts>>
    /\ UNCHANGED <<nameVars, docVars, batchVars, parseVars>>

CrossNext == CallCrossCheck

SpecCross == CrossInit /\ [][CrossNext]_vars

\* the slips (by position) that the expected-credit rule leaves unmatched
UnmatchedSlips ==
    {i \in 1..Len(ccSlips) :
        /\ ccSlips[i].NetSalary > 0
        /\ Len(ccStmts) > 0
        /\ ~\E k \in DOMAIN ccStmts[1].Transactions :
               /\ ccStmts[1].Transactions[k].IsCredit
               /\ ccStmts[1].Transactions[k].Amount = ccSlips[i].NetSalary}

StripWhitespace(s) == SelectSeq(s, LAMBDA c : ~IsSpace(c))
\* space characters removed
StripBlanks(s) == SelectSeq(s, LAMBDA c : c # " ")

\* C6 (as claimed): AccountMatch is true if and only if some salary record's
\* account number equals the reference statement's account number after
\* stripping whitespace from both.
C6_AccountMatchIffStrippedEqual ==
    (ccPhase = "done" /\ Len(ccStmts) > 0) =>
        (ccResult.AccountMatch <=>
            \E i \in 1..Len(ccSlips) :
                StripWhitespace(ccSlips[i].AccountNumber)
                    = StripWhitespace(ccStmts[1].AccountNumber))

\* C6 (amended): AccountMatch is true if and only if there is a reference
\* statement whose recorded account number is not empty and some salary
\* record's recorded account number is not empty and equals it after
\* removing the space characters from both; "1234 567890" matches
\* "1234567890", "1234567890" does not match "1234567891".
C6_AccountMatchRule ==
    ccPhase = "done" =>
        /\ ccResult.AccountMatch <=>
              /\ Len(ccStmts) > 0
              /\ \E i \in 1..Len(ccSlips) :
                    /\ ccSlips[i].AccountNumber # <<>>
                    /\ ccStmts[1].AccountNumber # <<>>
                    /\ StripBlanks(ccSlips[i].AccountNumber)
                          = StripBlanks(ccStmts[1].AccountNumber)
        /\ (/\ Len(ccSlips) = 1 /\ Len(ccStmts) > 0
            /\ ccSlips[1].AccountNumber = Acct1Spaced
            /\ ccStmts[1].AccountNumber = Acct1) => ccResult.AccountMatch
        /\ (/\ Len(ccSlips) = 1 /\ Len(ccStmts) > 0
            /\ ccSlips[1].AccountNumber = Acct1
            /\ ccStmts[1].AccountNumber = Acct2) => ~ccResult.AccountMatch

\* "1234 567890" on the slip, "1234567890" on the statement: a match
C6_Witness ==
    /\ ccPhase = "done"
    /\ Len(ccSlips) = 1
    /\ Len(ccStmts) = 1
    /\ ccSlips[1].AccountNumber = Acct1Spaced
    /\ ccStmts[1].AccountNumber = Acct1
    /\ ccResult.AccountMatch

(***************************************************************************)
(* More string helpers.                                                    *)
(***************************************************************************)
Rep(c, n) == [i \in 1..n |-> c]

\* strings.TrimSpace
RECURSIVE TrimLeft(_)
TrimLeft(s) == IF s # <<>> /\ IsSpace(Head(s)) THEN TrimLeft(Tail(s)) ELSE s

RECURSIVE TrimRight(_)
TrimRight(s) ==
    IF s # <<>> /\ IsSpace(s[Len(s)]) THEN TrimRight(SubSeq(s, 1, Len(s) - 1)) ELSE s

TrimSpace(s) == TrimRight(TrimLeft(s))

\* strings.HasSuffix
HasSuffix(s, suf) ==
    Len(s) >= Len(suf) /\ SubSeq(s, Len(s) - Len(suf) + 1, Len(s)) = suf

DotPdf == <<".", "p", "d", "f">>

(***************************************************************************)
(* Scores.  A float64 score is kept as a fraction <<numerator,             *)
(* denominator>>, so that the mean over pages and the halving of           *)
(* (confidence + resolution) are exact.                                    *)
(***************************************************************************)
Score(n) == <<n, 1>>
\* a / float64(count)
ScoreDiv(total, count) == <<total, count>>
\* (a + b) / 2 for a whole number b
ScoreMean2(a, b) == <<a[1] + b * a[2], 2 * a[2]>>
\* a < k for a whole number k
ScoreBelow(a, k) == a[1] < k * a[2]
\* a = k for a whole number k
ScoreIs(a, k) == a[1] = k * a[2]

\* the zero value of dto.DocumentQuality
ZeroQuality ==
    [ResolutionScore |-> Score(0), OcrConfidence |-> Score(0),
     FinalScore |-> Score(0), Issues |-> <<>>]

(***************************************************************************)
(* The text of errors (err.Error()), as sequences of characters.           *)
(***************************************************************************)
\* the word the handler looks for in an error's text
WordDecrypt ==
    <<"d","e","c","r","y","p","t">>

\* the words decryptPDFBytes looks for in pdfcpu's error
WordNotEncrypted ==
    <<"n","o","t"," ","e","n","c","r","y","p","t","e","d">>

\* pdfcpu's errors
ErrPdfcpuNotEncrypted ==
    <<"p","d","f","c","p","u",":"," ","t","h","i","s"," ","f","i","l","e"," ","i","s",
      " ","n","o","t"," ","e","n","c","r","y","p","t","e","d">>

ErrPdfcpuWrongPassword ==
    <<"p","d","f","c","p","u",":"," ","p","l","e","a","s","e"," ","p","r","o","v","i",
      "d","e"," ","t","h","e"," ","c","o","r","r","e","c","t"," ","p","a","s","s","w",
      "o","r","d">>

\* the prefixes fmt.Errorf puts before a wrapped error
ErrFailedToDecrypt ==
    <<"f","a","i","l","e","d"," ","t","o"," ","d","e","c","r","y","p","t"," ","P","D",
      "F",":"," ">>

ErrDecryptForText ==
    <<"c","o","u","l","d"," ","n","o","t"," ","d","e","c","r","y","p","t"," ","P","D",
      "F"," ","f","o","r"," ","t","e","x","t"," ","e","x","t","r","a","c","t","i","o",
      "n",":"," ">>

ErrDecryptForImages ==
    <<"c","o","u","l","d"," ","n","o","t"," ","d","e","c","r","y","p","t"," ","P","D",
      "F"," ","f","o","r"," ","i","m","a","g","e"," ","e","x","t","r","a","c","t","i",
      "o","n",":"," ">>

ErrExtractImages ==
    <<"f","a","i","l","e","d"," ","t","o"," ","e","x","t","r","a","c","t"," ","i","m",
      "a","g","e","s"," ","f","r","o","m"," ","P","D","F",":"," ">>

ErrDecodeImage ==
    <<"f","a","i","l","e","d"," ","t","o"," ","d","e","c","o","d","e"," ","i","m","a",
      "g","e",":"," ">>

ErrOcrExtraction ==
    <<"O","C","R"," ","e","x","t","r","a","c","t","i","o","n"," ","f","a","i","l","e",
      "d",":"," ">>

\* the errors of the PDF reader, pdftoppm, the image decoder and the OCR service
ErrPdfReader ==
    <<"e","n","c","r","y","p","t","e","d"," ","P","D","F",":"," ","i","n","v","a","l",
      "i","d"," ","p","a","s","s","w","o","r","d">>

ErrPdftoppm ==
    <<"p","d","f","t","o","p","p","m"," ","f","a","i","l","e","d",":"," ","e","x","i",
      "t"," ","s","t","a","t","u","s"," ","1","\n","O","u","t","p","u","t",":"," ","C",
      "o","m","m","a","n","d"," ","L","i","n","e"," ","E","r","r","o","r",":"," ","I",
      "n","c","o","r","r","e","c","t"," ","p","a","s","s","w","o","r","d">>

ErrImageFormat ==
    <<"i","m","a","g","e",":"," ","u","n","k","n","o","w","n"," ","f","o","r","m","a",
      "t">>

ErrPaddleRequest ==
    <<"c","o","n","n","e","c","t","i","o","n"," ","r","e","f","u","s","e","d">>

\* errors without a cause
ErrNoImagesExtracted ==
    <<"n","o"," ","i","m","a","g","e","s"," ","c","o","u","l","d"," ","b","e"," ","e",
      "x","t","r","a","c","t","e","d"," ","f","r","o","m"," ","t","h","e"," ","P","D",
      "F">>

ErrNoImagesFound ==
    <<"n","o"," ","i","m","a","g","e","s"," ","f","o","u","n","d"," ","i","n"," ","P",
      "D","F">>

ErrNoAadhaarData ==
    <<"c","o","u","l","d"," ","n","o","t"," ","e","x","t","r","a","c","t"," ","m","e",
      "a","n","i","n","g","f","u","l"," ","A","a","d","h","a","a","r"," ","d","a","t",
      "a"," ","f","r","o","m"," ","O","C","R"," ","t","e","x","t">>

(***************************************************************************)
(* pdfProcessor (decryptPDFBytes, ExtractText, ExtractImages).             *)
(* A PDF is [encrypted, password, textLayer, pages]; pdfcpu, the PDF       *)
(* reader and pdftoppm read a PDF only when it is not encrypted or has     *)
(* been decrypted.  Results carry errText, the text of the error.          *)
(***************************************************************************)
\* pdfcpu's api.Decrypt with the password as user and owner password
apiDecrypt(pdf, password) ==
    IF ~pdf.encrypted THEN [err |-> TRUE, errText |-> ErrPdfcpuNotEncrypted]
    ELSE IF password # pdf.password THEN [err |-> TRUE, errText |-> ErrPdfcpuWrongPassword]
    ELSE [err |-> FALSE, errText |-> <<>>]

\* mutant of IsNotEncryptedError: no error is taken for "not encrypted"
IsNotEncryptedErrorNever(errText) == FALSE

\* strings.Contains(err.Error(), "not encrypted")
IsNotEncryptedError(errText) == Contains(errText, WordNotEncrypted)

\* attempted: whether api.Decrypt was called; plain: whether the bytes
\* returned are a PDF that can be read without a password
decryptPDFBytes(pdf, password) ==
    IF password = ""
    THEN [err |-> FALSE, plain |-> ~pdf.encrypted, attempted |-> FALSE, errText |-> <<>>]
    ELSE LET r == apiDecrypt(pdf, password)
         IN  IF r.err
             THEN IF IsNotEncryptedError(r.errText)
                  THEN [err |-> FALSE, plain |-> ~pdf.encrypted, attempted |-> TRUE,
                        errText |-> <<>>]
                  ELSE [err |-> TRUE, plain |-> FALSE, attempted |-> TRUE,
                        errText |-> ErrFailedToDecrypt \o r.errText]
             ELSE [err |-> FALSE, plain |-> TRUE, attempted |-> TRUE, errText |-> <<>>]

ExtractText(pdf, password) ==
    LET d == decryptPDFBytes(pdf, password)
    IN  IF d.err THEN [text |-> <<>>, err |-> TRUE, decrypt |-> TRUE,
                       errText |-> ErrDecryptForText \o d.errText]
        ELSE IF ~d.plain THEN [text |-> <<>>, err |-> TRUE, decrypt |-> FALSE,
                               errText |-> ErrPdfReader]
        ELSE [text |-> pdf.textLayer, err |-> FALSE, decrypt |-> FALSE, errText |-> <<>>]

ExtractImages(pdf, password) ==
    LET d == decryptPDFBytes(pdf, password)
    IN  IF d.err THEN [images |-> <<>>, err |-> TRUE, decrypt |-> TRUE,
                       errText |-> ErrDecryptForImages \o d.errText]
        ELSE IF ~d.plain THEN [images |-> <<>>, err |-> TRUE, decrypt |-> FALSE,
                               errText |-> ErrPdftoppm]
        ELSE IF Len(pdf.pages) = 0 THEN [images |-> <<>>, err |-> TRUE, decrypt |-> FALSE,
                                         errText |-> ErrNoImagesExtracted]
        ELSE [images |-> pdf.pages, err |-> FALSE, decrypt |-> FALSE, errText |-> <<>>]

(***************************************************************************)
(* saveImageToTempFile.  A page image carries what happens to it:          *)
(* save \in {"ok", "create_failed", "encode_failed"}, and the answer of    *)
(* each engine when it is run on the saved image.                          *)
(***************************************************************************)
TempImage(i) == <<"ocr-img", i>>

saveImageToTempFile(img, i, fs) ==
    IF img.save = "create_failed"
    THEN [name |-> <<>>, err |-> TRUE, fs |-> fs]
    ELSE IF img.save = "encode_failed"           \* the created file stays
    THEN [name |-> <<>>, err |-> TRUE, fs |-> fs \cup {TempImage(i)}]
    ELSE [name |-> TempImage(i), err |-> FALSE, fs |-> fs \cup {TempImage(i)}]

(***************************************************************************)
(* IncomeService.ProcessDocument.                                          *)
(***************************************************************************)
\* len(strings.TrimSpace(text)) < 20: the text layer is too short
MinTextLayerLen == 20
\* len(strings.TrimSpace(pageText)) < 10: the primary engine's page text is too short
MinPageTextLen == 10
\* len(strings.TrimSpace(paddleText)) > 5: the primary engine's image text is enough
MinImageTextLen == 5
PaddleConfidence == 75
PlaceholderResolution == 80
MinQualityScore == 60

\* mutant of NeedsImageOCR: the threshold of an earlier revision
NeedsImageOCR100(text) == Len(TrimSpace(text)) < 100

NeedsImageOCR(text) == Len(TrimSpace(text)) < MinTextLayerLen

Call(fn, arg) == [fn |-> fn, arg |-> arg]

\* a method of the absent (nil) PaddleOCR client reads a field of the client
NilDereference ==
    [err |-> TRUE, panic |-> TRUE,
     msg |-> "runtime error: invalid memory address or nil pointer dereference"]

\* what follows the text of each page in the combined text
NoPageBreak == <<>>

PageBreak == <<"\n">>

\* the page loop: acc is [combinedText, totalConfidence, imageCount, fs, calls,
\* client, panicked]; client tells whether s.paddleClient is non-nil
RECURSIVE OcrPages(_, _, _)
OcrPages(images, i, acc) ==
    IF i > Len(images) \/ acc.panicked THEN acc
    ELSE
      LET img == images[i]
          saved == saveImageToTempFile(img, i, acc.fs)
          calls1 == Append(acc.calls, Call("saveImageToTempFile", i))
      IN  IF saved.err
          THEN OcrPages(images, i + 1, [acc EXCEPT !.fs = saved.fs, !.calls = calls1])
          ELSE IF ~acc.client
          THEN [acc EXCEPT !.fs = saved.fs, !.panicked = TRUE,
                           !.calls = Append(calls1,
                                            Call("paddleClient.ExtractTextFromFile", i))]
          ELSE
            LET fallback == img.paddle.err
                              \/ Len(TrimSpace(img.paddle.text)) < MinPageTextLen
                pageText == IF fallback THEN img.tess.text ELSE img.paddle.text
                pageConf == IF fallback THEN img.tess.conf ELSE PaddleConfidence
                ocrErr   == IF fallback THEN img.tess.err ELSE FALSE
                calls2 == Append(calls1, Call("paddleClient.ExtractTextFromFile", i))
                calls3 == IF fallback
                          THEN Append(calls2, Call("tesseractClient.ExtractTextAndQuality", i))
                          ELSE calls2
                removed == saved.fs \ {saved.name}     \* os.Remove(tempImgFile)
            IN  IF ocrErr
                THEN OcrPages(images, i + 1, [acc EXCEPT !.fs = removed, !.calls = calls3])
                ELSE OcrPages(images, i + 1,
                        [acc EXCEPT
                            !.combinedText = acc.combinedText \o pageText \o PageBreak,
                            !.totalConfidence = acc.totalConfidence + pageConf,
                            !.imageCount = acc.imageCount + 1,
                            !.fs = removed,
                            !.calls = calls3])

\* quality of OCR text: confidence and the placeholder resolution, halved
OcrQuality(conf, issues) ==
    LET final == ScoreMean2(conf, PlaceholderResolution)
    IN  [ResolutionScore |-> Score(PlaceholderResolution), OcrConfidence |-> conf,
         FinalScore |-> final,
         Issues |-> IF ScoreBelow(final, MinQualityScore)
                    THEN Append(issues, "low_quality_document") ELSE issues]

\* "Parse based on doc type": the parsers are functions of the text alone,
\* so a parsed record is kept as the text it was parsed from
ParseByDocType(docType, text, quality) ==
    IF docType = "salary_slip"
    THEN [err |-> FALSE, kind |-> "SalarySlipData", parsedFrom |-> text, Quality |-> quality]
    ELSE IF docType = "bank_statement"
    THEN [err |-> FALSE, kind |-> "BankStatementData", parsedFrom |-> text, Quality |-> quality]
    ELSE [err |-> TRUE, msg |-> "unknown document type"]

Returned(ret, fs, calls) == [ret |-> ret, fs |-> fs, calls |-> calls]

\* the text had so far followed by the text of a fallback channel
MergeText(prior, fallback) == prior \o fallback

\* text = combinedText.String(), extractedText = combined.String(): the text
\* of the fallback channel takes the place of the text had so far
ReplaceText(prior, fallback) == fallback

ProcessPDF(job) ==
    LET t == ExtractText(job.pdf, job.Password)
        calls0 == <<Call("pdfProcessor.ExtractText", 0)>>
        issues0 == IF t.err THEN <<"pdf_text_extraction_failed">> ELSE <<>>
    IN  IF NeedsImageOCR(t.text)
        THEN
          LET im == ExtractImages(job.pdf, job.Password)
              calls1 == Append(calls0, Call("pdfProcessor.ExtractImages", 0))
          IN  IF im.err \/ Len(im.images) = 0
              THEN Returned(
                     ParseByDocType(job.DocType, t.text,
                        [ZeroQuality EXCEPT
                            !.Issues = Append(issues0, "pdf_image_extraction_failed")]),
                     {}, calls1)
              ELSE
                LET acc == OcrPages(im.images, 1,
                              [combinedText |-> <<>>, totalConfidence |-> 0,
                               imageCount |-> 0, fs |-> {}, calls |-> calls1,
                               client |-> job.paddleAvailable, panicked |-> FALSE])
                IN  IF acc.panicked
                    THEN Returned(NilDereference, acc.fs, acc.calls)
                    ELSE IF acc.imageCount > 0
                    THEN Returned(
                           ParseByDocType(job.DocType,
                              ReplaceText(t.text, acc.combinedText),
                              OcrQuality(ScoreDiv(acc.totalConfidence, acc.imageCount),
                                         issues0)),
                           acc.fs, acc.calls)
                    ELSE Returned(
                           ParseByDocType(job.DocType, t.text,
                              [ZeroQuality EXCEPT
                                  !.Issues = Append(issues0, "scanned_pdf_ocr_failed")]),
                           acc.fs, acc.calls)
        ELSE Returned(
               ParseByDocType(job.DocType, t.text,
                  [ResolutionScore |-> Score(100), OcrConfidence |-> Score(100),
                   FinalScore |-> Score(100), Issues |-> issues0]),
               {}, calls0)

ProcessImage(job) ==
    LET calls0 == <<Call("paddleClient.ExtractText", 0)>>
        paddleOK == ~job.image.paddle.err
                      /\ Len(TrimSpace(job.image.paddle.text)) > MinImageTextLen
        paddleQuality ==
            [ResolutionScore |-> Score(PlaceholderResolution),
             OcrConfidence |-> Score(PaddleConfidence),
             FinalScore |-> ScoreMean2(Score(PaddleConfidence), PlaceholderResolution),
             Issues |-> <<>>]
    IN  IF ~job.paddleAvailable
        THEN Returned(NilDereference, {}, calls0)
        ELSE IF paddleOK /\ job.DocType \in {"salary_slip", "bank_statement"}
        THEN Returned(ParseByDocType(job.DocType, job.image.paddle.text, paddleQuality),
                      {}, calls0)
        ELSE
          LET calls1 == Append(calls0,
                               Call("tesseractClient.ExtractTextAndQualityFromFile", 0))
          IN  IF job.image.tess.err
              THEN Returned([err |-> TRUE, msg |-> "image OCR failed"], {}, calls1)
              ELSE Returned(
                     ParseByDocType(job.DocType, job.image.tess.text,
                                    OcrQuality(Score(job.image.tess.conf), <<>>)),
                     {}, calls1)

ProcessDocument(job) ==
    IF HasSuffix(ToLower(job.Filename), DotPdf) THEN ProcessPDF(job) ELSE ProcessImage(job)

(***************************************************************************)
(* IncomeService.AnalyzeITR and evaluateTextQuality.  Scores of            *)
(* evaluateTextQuality are kept in hundredths (6.67 is 667).               *)
(***************************************************************************)
ItrKeywords ==
    {<<"i","n","c","o","m","e">>, <<"t","a","x">>, <<"p","a","n">>,
     <<"a","s","s","e","s","s","m","e","n","t">>, <<"r","e","t","u","r","n">>,
     <<"t","o","t","a","l">>, <<"t","a","x","a","b","l","e">>,
     <<"r","e","f","u","n","d">>, <<"f","i","l","i","n","g">>}

KeywordPoints == 667
WeakTextScore == 5000

evaluateTextQuality(text) ==
    IF text = <<>> THEN 0
    ELSE
      LET textLen == Len(TrimSpace(text))
          lengthScore == IF textLen > 500 THEN 4000
                         ELSE IF textLen > 100 THEN 2000
                         ELSE IF textLen > 20 THEN 1000
                         ELSE 0
          textLower == ToLower(text)
          keywordCount == Cardinality({k \in ItrKeywords : Contains(textLower, k)})
          score == lengthScore + keywordCount * KeywordPoints
      IN  IF score > 10000 THEN 10000 ELSE score

\* len(strings.TrimSpace(paddleText)) > 10: a page's text is kept
MinItrPageTextLen == 10
\* len(strings.TrimSpace(combined)) > 20: the pages' text replaces the text layer
MinItrCombinedLen == 20

\* the page loop of AnalyzeITR: acc is [combined, fs, calls]
RECURSIVE ItrPages(_, _, _)
ItrPages(images, i, acc) ==
    IF i > Len(images) THEN acc
    ELSE
      LET img == images[i]
          saved == saveImageToTempFile(img, i, acc.fs)
          calls1 == Append(acc.calls, Call("saveImageToTempFile", i))
      IN  IF saved.err
          THEN ItrPages(images, i + 1, [acc EXCEPT !.fs = saved.fs, !.calls = calls1])
          ELSE
            LET keep == ~img.paddle.err
                          /\ Len(TrimSpace(img.paddle.text)) > MinItrPageTextLen
            IN  ItrPages(images, i + 1,
                   [combined |-> IF keep
                                 THEN acc.combined \o img.paddle.text \o <<"\n">>
                                 ELSE acc.combined,
                    fs |-> saved.fs \ {saved.name},      \* os.Remove(tmp)
                    calls |-> Append(calls1,
                                     Call("paddleClient.ExtractTextFromFile", i))])

\* the end of AnalyzeITR: the empty-text check and utils.ParseITR
ParseITR(text, fs, calls) ==
    IF Len(TrimSpace(text)) = 0
    THEN Returned([err |-> TRUE, msg |-> "no text could be extracted from the document"],
                  fs, calls)
    ELSE Returned([err |-> FALSE, kind |-> "ITRResult", parsedFrom |-> text], fs, calls)

\* step 3 of the PDF case: the secondary engine on the uploaded file
ItrLastResort(job, text, fs, calls) ==
    IF Len(TrimSpace(text)) = 0
    THEN ParseITR(IF job.image.tess.err THEN text ELSE job.image.tess.text, fs,
                  Append(calls, Call("tesseractClient.ExtractTextAndQualityFromFile", 0)))
    ELSE ParseITR(text, fs, calls)

AnalyzeITRPdf(job) ==
    LET t == ExtractText(job.pdf, "")
        extracted0 == IF t.err THEN <<>> ELSE t.text
        calls0 == <<Call("pdfProcessor.ExtractText", 0)>>
    IN  IF evaluateTextQuality(extracted0) < WeakTextScore
        THEN
          LET im == ExtractImages(job.pdf, "")
              calls1 == Append(calls0, Call("pdfProcessor.ExtractImages", 0))
          IN  IF im.err \/ Len(im.images) = 0
              THEN ItrLastResort(job, extracted0, {}, calls1)
              ELSE
                LET acc == ItrPages(im.images, 1,
                              [combined |-> <<>>, fs |-> {}, calls |-> calls1])
                    extracted1 ==
                        IF Len(TrimSpace(acc.combined)) > MinItrCombinedLen
                        THEN ReplaceText(extracted0, acc.combined) ELSE extracted0
                IN  ItrLastResort(job, extracted1, acc.fs, acc.calls)
        ELSE ItrLastResort(job, extracted0, {}, calls0)

AnalyzeITRImage(job) ==
    LET calls0 == <<Call("paddleClient.ExtractText", 0)>>
    IN  IF ~job.image.paddle.err
             /\ Len(TrimSpace(job.image.paddle.text)) > MinImageTextLen
        THEN ParseITR(job.image.paddle.text, {}, calls0)
        ELSE
          LET calls1 == Append(calls0,
                               Call("tesseractClient.ExtractTextAndQualityFromFile", 0))
          IN  IF job.image.tess.err
              THEN Returned([err |-> TRUE, msg |-> "OCR failed"], {}, calls1)
              ELSE ParseITR(job.image.tess.text, {}, calls1)

AnalyzeITR(job) ==
    IF job.upload = "open_failed"
    THEN Returned([err |-> TRUE, msg |-> "failed to open file"], {}, <<>>)
    ELSE IF job.upload = "read_failed"
    THEN Returned([err |-> TRUE, msg |-> "failed to read file"], {}, <<>>)
    ELSE IF HasSuffix(ToLower(job.Filename), DotPdf) THEN AnalyzeITRPdf(job)
    ELSE AnalyzeITRImage(job)

(***************************************************************************)
(* AadhaarQRData (GetFullAddress, GetLast4Digits, GetDOB).                 *)
(***************************************************************************)
\* one part of the address, or none when the attribute is empty
AddressPart(prefix, v) == IF v = <<>> THEN <<>> ELSE <<prefix \o v>>

\* strings.Join
RECURSIVE Join(_, _)
Join(parts, sep) ==
    IF parts = <<>> THEN <<>>
    ELSE IF Len(parts) = 1 THEN parts[1]
    ELSE parts[1] \o sep \o Join(Tail(parts), sep)

GetFullAddress(q) ==
    Join(AddressPart(<<"C", "/", "O", " ">>, q.CO)
           \o AddressPart(<<>>, q.House)
           \o AddressPart(<<>>, q.Street)
           \o AddressPart(<<>>, q.Landmark)
           \o AddressPart(<<>>, q.Locality)
           \o AddressPart(<<>>, q.VTC)
           \o AddressPart(<<"P", "O", " ">>, q.PO)
           \o AddressPart(<<>>, q.SubDistrict)
           \o AddressPart(<<>>, q.District)
           \o AddressPart(<<>>, q.State)
           \o AddressPart(<<>>, q.PC),
         <<",", " ">>)

\* mutant of GetLast4Digits: the whole number
GetLast4DigitsWhole(q) == q.UID

GetLast4Digits(q) ==
    IF Len(q.UID) >= 4 THEN SubSeq(q.UID, Len(q.UID) - 3, Len(q.UID)) ELSE q.UID

GetDOB(q) ==
    IF q.DateOfBirth # <<>> THEN q.DateOfBirth
    ELSE IF q.YearOfBirth # <<>> THEN q.YearOfBirth
    ELSE <<>>

(***************************************************************************)
(* AadhaarService: extractFromQR, ExtractFromFile, extractFromOCR.         *)
(* An identity image is [bitmap, qr, encode, save, paddle, tess]: whether  *)
(* a binary bitmap can be made of it, the code it carries ("none", "text"  *)
(* for a code that is not the XML payload, "xml" with the payload), whether*)
(* it encodes to PNG, and the engines' answers on its printed text.        *)
(***************************************************************************)
extractFromQR(img) ==
    IF ~img.bitmap THEN [err |-> TRUE, msg |-> "failed to create binary bitmap"]
    ELSE IF img.qr.kind = "none" THEN [err |-> TRUE, msg |-> "failed to decode QR code"]
    ELSE IF img.qr.kind # "xml" THEN [err |-> TRUE, msg |-> "failed to parse QR XML data"]
    ELSE [err |-> FALSE,
          Name |-> img.qr.data.Name,
          DOB |-> GetDOB(img.qr.data),
          Gender |-> img.qr.data.Gender,
          Address |-> GetFullAddress(img.qr.data),
          AadhaarLast4 |-> GetLast4Digits(img.qr.data),
          Source |-> "qr"]

\* utils.ParseAadhaarFromText and the test that follows it: the parser is a
\* function of the text; whether it finds a name or a number in the text
\* is part of the job
ParseAadhaar(job, text, fs, calls) ==
    LET calls1 == Append(calls, Call("utils.ParseAadhaarFromText", 0))
    IN  IF ~job.parseFinds
        THEN Returned([err |-> TRUE,
                       msg |-> "could not extract meaningful Aadhaar data from OCR text",
                       errText |-> ErrNoAadhaarData],
                      fs, calls1)
        ELSE Returned([err |-> FALSE, Source |-> "ocr", parsedFrom |-> text], fs, calls1)

MimePdf ==
    <<"a","p","p","l","i","c","a","t","i","o","n","/","p","d","f">>
MimePng ==
    <<"i","m","a","g","e","/","p","n","g">>

\* "OCR on ALL PAGES": acc is [fullText, calls]
RECURSIVE AadhaarPages(_, _, _)
AadhaarPages(images, i, acc) ==
    IF i > Len(images) THEN acc
    ELSE IF ~images[i].encode THEN AadhaarPages(images, i + 1, acc)
    ELSE
      LET calls1 == Append(acc.calls, Call("paddleClient.ExtractText", i))
      IN  IF images[i].paddle.err
          THEN AadhaarPages(images, i + 1, [acc EXCEPT !.calls = calls1])
          ELSE AadhaarPages(images, i + 1,
                  [fullText |-> acc.fullText \o <<"\n">> \o images[i].paddle.text,
                   calls |-> calls1])

\* steps 3 to 5 of ExtractFromFile, on the image img chosen for the code
\* reader; at is its page number, 0 for an uploaded image
ExtractFromImage(job, images, img, at, calls) ==
    LET qrResult == extractFromQR(img)
        calls1 == Append(calls, Call("extractFromQR", at))
    IN  IF ~qrResult.err THEN Returned(qrResult, {}, calls1)
        ELSE IF Len(images) > 0
        THEN LET acc == AadhaarPages(images, 1, [fullText |-> <<>>, calls |-> calls1])
             IN  ParseAadhaar(job, acc.fullText, {}, acc.calls)
        ELSE LET calls2 == Append(calls1, Call("paddleClient.ExtractText", 0))
             IN  IF job.image.paddle.err
                 THEN Returned([err |-> TRUE, msg |-> "OCR extraction failed",
                                errText |-> ErrOcrExtraction \o ErrPaddleRequest],
                               {}, calls2)
                 ELSE ParseAadhaar(job, job.image.paddle.text, {}, calls2)

ExtractFromFile(job) ==
    IF Contains(job.mimeType, <<"p", "d", "f">>)
    THEN
      LET im == ExtractImages(job.pdf, job.Password)
          calls0 == <<Call("pdfProcessor.ExtractImages", 0)>>
      IN  IF im.err
          THEN Returned([err |-> TRUE, msg |-> "failed to extract images from PDF",
                         errText |-> ErrExtractImages \o im.errText],
                        {}, calls0)
          ELSE IF Len(im.images) = 0
          THEN Returned([err |-> TRUE, msg |-> "no images found in PDF",
                         errText |-> ErrNoImagesFound], {}, calls0)
          ELSE IF Len(im.images) > 1
          THEN ExtractFromImage(job, im.images, im.images[2], 2, calls0)
          ELSE ExtractFromImage(job, im.images, im.images[1], 1, calls0)
    ELSE
      IF ~job.image.decode
      THEN Returned([err |-> TRUE, msg |-> "failed to decode image",
                     errText |-> ErrDecodeImage \o ErrImageFormat], {}, <<>>)
      ELSE ExtractFromImage(job, <<>>, job.image, 0, <<>>)

\* PaddleOCR's text is enough when it has at least this many characters
MinAadhaarTextLen == 50

TempAadhaarImage == <<"aadhaar-ocr", 0>>

saveAadhaarImageToTempFile(img, fs) ==
    IF img.save = "create_failed"
    THEN [name |-> <<>>, err |-> TRUE, fs |-> fs]
    ELSE IF img.save = "encode_failed"           \* the created file stays
    THEN [name |-> <<>>, err |-> TRUE, fs |-> fs \cup {TempAadhaarImage}]
    ELSE [name |-> TempAadhaarImage, err |-> FALSE, fs |-> fs \cup {TempAadhaarImage}]

extractFromOCR(job) ==
    LET img == job.image
        tried == job.paddleAvailable /\ img.encode
        calls0 == IF tried THEN <<Call("paddleClient.ExtractText", 0)>> ELSE <<>>
        text0 == IF tried /\ ~img.paddle.err THEN img.paddle.text ELSE <<>>
        err0 == tried /\ img.paddle.err
    IN  IF job.paddleAvailable /\ ~(err0 \/ Len(TrimSpace(text0)) < MinAadhaarTextLen)
        THEN ParseAadhaar(job, text0, {}, calls0)
        ELSE
          LET saved == saveAadhaarImageToTempFile(img, {})
              calls1 == Append(calls0, Call("saveAadhaarImageToTempFile", 0))
          IN  IF saved.err
              THEN Returned([err |-> TRUE, msg |-> "failed to save temp image"],
                            saved.fs, calls1)
              ELSE
                LET calls2 == Append(calls1,
                                     Call("tesseractClient.ExtractTextAndQuality", 0))
                    \* defer os.Remove(tempFile) runs on every return below
                    removed == saved.fs \ {saved.name}
                IN  IF img.tess.err
                    THEN Returned([err |-> TRUE, msg |-> "OCR extraction failed"],
                                  removed, calls2)
                    ELSE ParseAadhaar(job, img.tess.text, removed, calls2)

(***************************************************************************)
(* AadhaarService.ExtractFromImages: several uploaded images of one card.  *)
(***************************************************************************)
ErrNoImagesProvided ==
    <<"n","o"," ","i","m","a","g","e","s"," ","p","r","o","v","i","d","e","d">>

ErrDecodeAnyImage ==
    <<"f","a","i","l","e","d"," ","t","o"," ","d","e","c","o","d","e"," ","a","n","y"," ",
      "A","a","d","h","a","a","r"," ","i","m","a","g","e">>

ErrNoValidAadhaar ==
    <<"c","o","u","l","d"," ","n","o","t"," ","e","x","t","r","a","c","t"," ",
      "v","a","l","i","d"," ","A","a","d","h","a","a","r"," ","d","e","t","a","i","l","s"," ",
      "f","r","o","m"," ","O","C","R"," ","t","e","x","t">>

\* the images that decodeImage could decode, in the order of the uploads
DecodedImages(imagesData) == SelectSeq(imagesData, LAMBDA im : im.decode)

QRSucceededNever(qr) == FALSE

\* "err == nil && qr != nil"
QRSucceeded(qr) == ~qr.err

\* the loop over the images with the code reader: [found, qr, calls]
RECURSIVE QRScan(_, _, _)
QRScan(images, i, calls) ==
    IF i > Len(images) THEN [found |-> FALSE, qr |-> <<>>, calls |-> calls]
    ELSE
      LET qr == extractFromQR(images[i])
          calls1 == Append(calls, Call("extractFromQR", i))
      IN  IF QRSucceeded(qr) THEN [found |-> TRUE, qr |-> qr, calls |-> calls1]
          ELSE QRScan(images, i + 1, calls1)

\* "OCR on ALL images": acc is [combined, calls]
RECURSIVE OcrImagesLoop(_, _, _)
OcrImagesLoop(images, i, acc) ==
    IF i > Len(images) THEN acc
    ELSE IF ~images[i].encode THEN OcrImagesLoop(images, i + 1, acc)
    ELSE
      LET calls1 == Append(acc.calls, Call("paddleClient.ExtractText", i))
      IN  IF images[i].paddle.err
          THEN OcrImagesLoop(images, i + 1, [acc EXCEPT !.calls = calls1])
          ELSE OcrImagesLoop(images, i + 1,
                  [combined |-> acc.combined \o <<"\n">> \o images[i].paddle.text,
                   calls |-> calls1])

ExtractFromImages(job) ==
    IF Len(job.imagesData) = 0
    THEN Returned([err |-> TRUE, msg |-> "no images provided",
                   errText |-> ErrNoImagesProvided], {}, <<>>)
    ELSE
      LET images == DecodedImages(job.imagesData)
      IN  IF Len(images) = 0
          THEN Returned([err |-> TRUE, msg |-> "failed to decode any Aadhaar image",
                         errText |-> ErrDecodeAnyImage], {}, <<>>)
          ELSE
            LET scan == QRScan(images, 1, <<>>)
            IN  IF scan.found THEN Returned(scan.qr, {}, scan.calls)
                ELSE
                  LET acc == OcrImagesLoop(images, 1,
                                           [combined |-> <<>>, calls |-> scan.calls])
                      calls1 == Append(acc.calls, Call("utils.ParseAadhaarFromText", 0))
                  IN  IF ~job.parseFinds
                      THEN Returned(
                             [err |-> TRUE,
                              msg |-> "could not extract valid Aadhaar details from OCR text",
                              errText |-> ErrNoValidAadhaar], {}, calls1)
                      ELSE Returned([err |-> FALSE, Source |-> "ocr",
                                     parsedFrom |-> acc.combined], {}, calls1)

(***************************************************************************)
(* Jobs used as inputs.                                                    *)
(***************************************************************************)
\* a text of n visible characters c, with white space around it
TextOf(c, n) == <<" ">> \o Rep(c, n) \o <<"\n">>

NamePdf      == <<"s", ".", "p", "d", "f">>
NamePdfUpper == <<"S", ".", "P", "D", "F">>
NamePng      == <<"s", ".", "p", "n", "g">>

Engine(e, t, c) == [err |-> e, text |-> t, conf |-> c]

PaddleAnswers(min) ==
    {Engine(TRUE, <<>>, 0), Engine(FALSE, TextOf("p", min - 1), 0),
     Engine(FALSE, TextOf("p", min), 0), Engine(FALSE, TextOf("p", min + 1), 0)}

TessAnswers ==
    {Engine(TRUE, <<>>, 0), Engine(FALSE, TextOf("s", 12), 30),
     Engine(FALSE, TextOf("s", 12), 90)}

Page(sv, pd, ts) == [save |-> sv, paddle |-> pd, tess |-> ts]

PageValues ==
    {Page("create_failed", Engine(TRUE, <<>>, 0), Engine(TRUE, <<>>, 0)),
     Page("encode_failed", Engine(TRUE, <<>>, 0), Engine(TRUE, <<>>, 0))}
    \cup {Page("ok", pd, ts) :
            pd \in {Engine(TRUE, <<>>, 0),
                    Engine(FALSE, TextOf("p", MinPageTextLen - 1), 0),
                    Engine(FALSE, TextOf("p", MinPageTextLen), 0)},
            ts \in TessAnswers}

PageLists == SeqsUpTo(PageValues, MaxPages)

Pdf(enc, txt, pgs) ==
    [encrypted |-> enc, password |-> "secret", textLayer |-> txt, pages |-> pgs]

TextLayers ==
    {<<>>, TextOf("t", MinTextLayerLen - 1), TextOf("t", MinTextLayerLen),
     Rep("t", 9) \o <<" ", "\n">> \o Rep("t", 9)}

DocTypes == {"salary_slip", "bank_statement", "itr"}

NoImage == [paddle |-> Engine(TRUE, <<>>, 0), tess |-> Engine(TRUE, <<>>, 0)]
NoPdf == Pdf(FALSE, <<>>, <<>>)

\* whether the PDF is encrypted, and the password of the manifest
PdfAccess ==
    {<<FALSE, "">>, <<FALSE, "secret">>, <<TRUE, "secret">>,
     <<TRUE, "wrong">>, <<TRUE, "">>}

PdfJob(dt, ac, txt, pgs) ==
    [op |-> "ProcessDocument", Filename |-> NamePdf, DocType |-> dt,
     Password |-> ac[2], pdf |-> Pdf(ac[1], txt, pgs), image |-> NoImage,
     paddleAvailable |-> TRUE]

\* documents given to a service whose PaddleOCR client is nil: a PDF with a
\* text layer, scanned PDFs, and images
NilClientJobs ==
    {[PdfJob("salary_slip", <<FALSE, "">>, txt, pgs) EXCEPT !.paddleAvailable = FALSE] :
        txt \in {<<>>, TextOf("t", MinTextLayerLen)}, pgs \in SeqsUpTo(PageValues, 1)}
    \cup
    {[op |-> "ProcessDocument", Filename |-> NamePng, DocType |-> "salary_slip",
      Password |-> "", pdf |-> NoPdf, image |-> [paddle |-> pd, tess |-> ts],
      paddleAvailable |-> FALSE] :
        pd \in {Engine(TRUE, <<>>, 0)}, ts \in TessAnswers}

\* PDFs of every kind of access with at most one page, open PDFs with every
\* list of pages, upper-case file names, and images
ProcessDocumentJobs ==
    {PdfJob(dt, ac, txt, pgs) :
        dt \in DocTypes, ac \in PdfAccess, txt \in TextLayers,
        pgs \in SeqsUpTo(PageValues, 1)}
    \cup
    {PdfJob(dt, <<FALSE, "">>, txt, pgs) :
        dt \in DocTypes, txt \in {<<>>, TextOf("t", MinTextLayerLen)},
        pgs \in PageLists}
    \cup
    {[op |-> "ProcessDocument", Filename |-> NamePdfUpper, DocType |-> dt,
      Password |-> "", pdf |-> Pdf(FALSE, txt, <<>>), image |-> NoImage,
      paddleAvailable |-> TRUE] :
        dt \in DocTypes, txt \in TextLayers}
    \cup
    {[op |-> "ProcessDocument", Filename |-> NamePng, DocType |-> dt,
      Password |-> "", pdf |-> NoPdf, image |-> [paddle |-> pd, tess |-> ts],
      paddleAvailable |-> TRUE] :
        dt \in DocTypes, pd \in PaddleAnswers(MinImageTextLen + 1), ts \in TessAnswers}
    \cup NilClientJobs

\* text layers of ITR documents: none, no keyword, five keywords, six keywords
ItrFiveKeywords ==
    <<"I","n","c","o","m","e"," ","T","a","x"," ","P","A","N"," ",
      "r","e","t","u","r","n"," ","t","o","t","a","l">>
ItrSixKeywords == ItrFiveKeywords \o <<" ","r","e","f","u","n","d","\n">>

ItrTextLayers == {<<>>, TextOf("t", 25), ItrFiveKeywords, ItrSixKeywords}

ItrPageValues ==
    {Page("create_failed", Engine(TRUE, <<>>, 0), Engine(TRUE, <<>>, 0)),
     Page("encode_failed", Engine(TRUE, <<>>, 0), Engine(TRUE, <<>>, 0))}
    \cup {Page("ok", pd, Engine(TRUE, <<>>, 0)) :
            pd \in {Engine(TRUE, <<>>, 0),
                    Engine(FALSE, TextOf("p", MinItrPageTextLen), 0),
                    Engine(FALSE, TextOf("p", MinItrPageTextLen + 1), 0),
                    Engine(FALSE, TextOf("p", MinItrCombinedLen + 1), 0)}}

AnalyzeITRJobs ==
    {[op |-> "AnalyzeITR", Filename |-> NamePdf, upload |-> "ok",
      pdf |-> Pdf(enc, txt, pgs),
      image |-> [paddle |-> Engine(TRUE, <<>>, 0), tess |-> ts]] :
        enc \in BOOLEAN, txt \in ItrTextLayers,
        pgs \in SeqsUpTo(ItrPageValues, MaxPages), ts \in TessAnswers}
    \cup
    {[op |-> "AnalyzeITR", Filename |-> NamePng, upload |-> up, pdf |-> NoPdf,
      image |-> [paddle |-> pd, tess |-> ts]] :
        up \in {"ok", "open_failed", "read_failed"},
        pd \in PaddleAnswers(MinImageTextLen + 1), ts \in TessAnswers}

\* payloads of the code on an identity document
QRData(uid, name, dob, yob, co, house, po, pc) ==
    [UID |-> uid, Name |-> name, Gender |-> <<"M">>,
     YearOfBirth |-> yob, DateOfBirth |-> dob,
     CO |-> co, House |-> house, Street |-> <<>>, Landmark |-> <<>>,
     Locality |-> <<>>, VTC |-> <<"v">>, PO |-> po, District |-> <<"d">>,
     SubDistrict |-> <<>>, State |-> <<"s">>, PC |-> pc]

Uid12 == <<"1", "2", "3", "4", "5", "6", "7", "8", "9", "0", "1", "2">>
Dob == <<"0", "1", "/", "0", "2", "/", "1", "9", "9", "0">>
Yob == <<"1", "9", "9", "0">>

QRPayloads ==
    {QRData(Uid12, <<"R", "a", "v", "i">>, Dob, Yob, <<"k">>, <<"7">>, <<"p">>, <<"5">>),
     QRData(Uid12, <<"R", "a", "v", "i">>, <<>>, Yob, <<>>, <<"7">>, <<>>, <<"5">>),
     QRData(SubSeq(Uid12, 1, 4), <<"R">>, Dob, <<>>, <<"k">>, <<>>, <<"p">>, <<>>),
     QRData(SubSeq(Uid12, 1, 3), <<>>, <<>>, <<>>, <<>>, <<>>, <<>>, <<>>)}

NoQR == [kind |-> "none"]
PlainQR == [kind |-> "text"]
XmlQR(d) == [kind |-> "xml", data |-> d]

PrintedText == Engine(FALSE, TextOf("p", MinAadhaarTextLen), 0)

IdImage(bmp, qr, enc, pd) ==
    [decode |-> TRUE, bitmap |-> bmp, qr |-> qr, encode |-> enc,
     save |-> IF enc THEN "ok" ELSE "encode_failed", paddle |-> pd,
     tess |-> Engine(TRUE, <<>>, 0)]

IdPageValues ==
    {IdImage(FALSE, NoQR, TRUE, PrintedText),
     IdImage(TRUE, NoQR, TRUE, PrintedText),
     IdImage(TRUE, NoQR, TRUE, Engine(TRUE, <<>>, 0)),
     IdImage(TRUE, NoQR, TRUE, Engine(FALSE, TextOf("q", 3), 0)),
     IdImage(TRUE, NoQR, FALSE, PrintedText),
     IdImage(TRUE, PlainQR, TRUE, PrintedText)}
    \cup {IdImage(TRUE, XmlQR(d), TRUE, PrintedText) : d \in QRPayloads}

UndecodableImage ==
    [IdImage(FALSE, NoQR, FALSE, Engine(TRUE, <<>>, 0)) EXCEPT !.decode = FALSE]

\* uploads of several images: ones that do not decode, ones without a
\* readable code, ones with a code that is not a card's, and two cards
UploadValues ==
    {UndecodableImage,
     IdImage(FALSE, NoQR, TRUE, PrintedText),
     IdImage(TRUE, NoQR, TRUE, PrintedText),
     IdImage(TRUE, NoQR, TRUE, Engine(TRUE, <<>>, 0)),
     IdImage(TRUE, NoQR, TRUE, Engine(FALSE, TextOf("q", 3), 0)),
     IdImage(TRUE, NoQR, FALSE, PrintedText),
     IdImage(TRUE, PlainQR, TRUE, PrintedText),
     IdImage(TRUE, XmlQR(QRData(Uid12, <<"R", "a", "v", "i">>, Dob, Yob,
                                <<"k">>, <<"7">>, <<"p">>, <<"5">>)), TRUE, PrintedText),
     IdImage(TRUE, XmlQR(QRData(SubSeq(Uid12, 1, 4), <<"R">>, Dob, <<>>,
                                <<"k">>, <<>>, <<"p">>, <<>>)), TRUE, PrintedText)}

ExtractFromImagesJobs ==
    {[op |-> "ExtractFromImages", imagesData |-> ims, parseFinds |-> pf] :
        ims \in SeqsUpTo(UploadValues, MaxPages), pf \in BOOLEAN}

ExtractFromFileJobs ==
    {[op |-> "ExtractFromFile", mimeType |-> MimePdf, Password |-> ac[2],
      pdf |-> Pdf(ac[1], <<>>, pgs), image |-> UndecodableImage, parseFinds |-> pf] :
        ac \in PdfAccess, pgs \in SeqsUpTo(IdPageValues, MaxPages), pf \in BOOLEAN}
    \cup
    {[op |-> "ExtractFromFile", mimeType |-> MimePng, Password |-> "",
      pdf |-> NoPdf, image |-> im, parseFinds |-> pf] :
        im \in IdPageValues \cup {UndecodableImage}, pf \in BOOLEAN}

OcrImages ==
    {[decode |-> TRUE, bitmap |-> TRUE, qr |-> NoQR, encode |-> enc, save |-> sv,
      paddle |-> pd, tess |-> ts] :
        enc \in BOOLEAN, sv \in {"ok", "create_failed", "encode_failed"},
        pd \in {Engine(TRUE, <<>>, 0),
                Engine(FALSE, TextOf("p", MinAadhaarTextLen - 1), 0),
                Engine(FALSE, TextOf("p", MinAadhaarTextLen), 0)},
        ts \in {Engine(TRUE, <<>>, 0), Engine(FALSE, TextOf("s", 12), 90)}}

\* an image that does not encode to PNG in memory does not encode to a file
ExtractFromOCRJobs ==
    {[op |-> "extractFromOCR", paddleAvailable |-> pa, image |-> im, parseFinds |-> pf] :
        pa \in BOOLEAN, im \in {i \in OcrImages : ~i.encode => i.save # "ok"},
        pf \in BOOLEAN}

(***************************************************************************)
(* AadhaarHandler.ExtractAadhaar for one uploaded file, with sendError,    *)
(* isValidMimeType and inferMimeType.                                      *)
(***************************************************************************)
MsgDecryptCheckPassword ==
    <<"F","a","i","l","e","d"," ","t","o"," ","d","e","c","r","y","p","t"," ","P","D",
      "F","."," ","C","h","e","c","k"," ","p","a","s","s","w","o","r","d",".">>

MsgFailedToExtract ==
    <<"F","a","i","l","e","d"," ","t","o"," ","e","x","t","r","a","c","t"," ","A","a",
      "d","h","a","a","r">>

MsgInvalidFileType ==
    <<"I","n","v","a","l","i","d"," ","f","i","l","e"," ","t","y","p","e","."," ","S",
      "u","p","p","o","r","t","e","d",":"," ","P","D","F",","," ","P","N","G",","," ",
      "J","P","E","G">>

MsgFailedToOpen ==
    <<"F","a","i","l","e","d"," ","t","o"," ","o","p","e","n"," ","u","p","l","o","a",
      "d","e","d"," ","f","i","l","e">>

MsgFailedToRead ==
    <<"F","a","i","l","e","d"," ","t","o"," ","r","e","a","d"," ","f","i","l","e"," ",
      "d","a","t","a">>

ErrOpen ==
    <<"o","p","e","n"," ",":"," ","n","o"," ","s","u","c","h"," ","f","i","l","e"," ",
      "o","r"," ","d","i","r","e","c","t","o","r","y">>

ErrRead ==
    <<"u","n","e","x","p","e","c","t","e","d"," ","E","O","F">>

MimeJpeg ==
    <<"i","m","a","g","e","/","j","p","e","g">>

MimeJpg ==
    <<"i","m","a","g","e","/","j","p","g">>

MimeText ==
    <<"t","e","x","t","/","p","l","a","i","n">>

DotPng ==
    <<".","p","n","g">>

DotJpg ==
    <<".","j","p","g">>

DotJpeg ==
    <<".","j","p","e","g">>

StatusOK == 200
StatusBadRequest == 400
StatusInternalServerError == 500

isValidMimeType(mimeType) ==
    \E valid \in {MimePdf, MimePng, MimeJpeg, MimeJpg} : Contains(ToLower(mimeType), valid)

inferMimeType(filename) ==
    LET lower == ToLower(filename)
    IN  IF HasSuffix(lower, DotPdf) THEN MimePdf
        ELSE IF HasSuffix(lower, DotPng) THEN MimePng
        ELSE IF HasSuffix(lower, DotJpg) \/ HasSuffix(lower, DotJpeg) THEN MimeJpeg
        ELSE <<>>

\* the message sent is the error's text whenever there is an error
sendError(statusCode, message, hasErr, errText) ==
    [status |-> statusCode, Error |-> "AADHAAR_EXTRACTION_FAILED",
     Message |-> IF hasErr THEN errText ELSE message]

MsgFileRequired ==
    <<"A","t"," ","l","e","a","s","t"," ","o","n","e"," ","f","i","l","e"," ","i","s",
      " ","r","e","q","u","i","r","e","d">>

MsgFailedToOpenOne ==
    <<"F","a","i","l","e","d"," ","t","o"," ","o","p","e","n"," ","o","n","e"," ","o",
      "f"," ","t","h","e"," ","u","p","l","o","a","d","e","d"," ","f","i","l","e","s">>

MsgFailedToReadImage ==
    <<"F","a","i","l","e","d"," ","t","o"," ","r","e","a","d"," ","u","p","l","o","a",
      "d","e","d"," ","i","m","a","g","e">>

MsgFailedMultiple ==
    <<"F","a","i","l","e","d"," ","t","o"," ","e","x","t","r","a","c","t"," ","A","a",
      "d","h","a","a","r"," ","f","r","o","m"," ","m","u","l","t","i","p","l","e"," ",
      "i","m","a","g","e","s">>

ErrNoSuchFile ==
    <<"h","t","t","p",":"," ","n","o"," ","s","u","c","h"," ","f","i","l","e">>

\* the Content-Type of the upload, or the type inferred from its name
MimeTypeOf(file) ==
    IF file.contentType = <<>> THEN inferMimeType(file.Filename) ELSE file.contentType

\* CASE 1 of the handler: what stops the loop over the files at one file
MultiFileProblem(file) ==
    IF file.upload = "open_failed"
    THEN <<sendError(StatusInternalServerError, MsgFailedToOpenOne, TRUE, ErrOpen)>>
    ELSE IF file.upload = "read_failed"
    THEN <<sendError(StatusInternalServerError, MsgFailedToReadImage, TRUE, ErrRead)>>
    ELSE IF ~isValidMimeType(MimeTypeOf(file))
    THEN <<sendError(StatusBadRequest, MsgInvalidFileType, FALSE, <<>>)>>
    ELSE <<>>

RECURSIVE FirstProblem(_, _)
FirstProblem(files, i) ==
    IF i > Len(files) THEN <<>>
    ELSE IF MultiFileProblem(files[i]) # <<>> THEN MultiFileProblem(files[i])
    ELSE FirstProblem(files, i + 1)

ExtractAadhaarMulti(job) ==
    LET problem == FirstProblem(job.files, 1)
    IN  IF problem # <<>> THEN Returned(problem[1], {}, <<>>)
        ELSE
          LET r == ExtractFromImages(
                      [imagesData |-> [i \in 1..Len(job.files) |-> job.files[i].image],
                       parseFinds |-> job.parseFinds])
          IN  IF r.ret.err
              THEN Returned(sendError(StatusInternalServerError, MsgFailedMultiple,
                                      TRUE, r.ret.errText), r.fs, r.calls)
              ELSE Returned([status |-> StatusOK, body |-> r.ret], r.fs, r.calls)

ExtractAadhaarSingle(job) ==
    LET file == job.files[1]
        mimeType == MimeTypeOf(file)
    IN  IF ~isValidMimeType(mimeType)
        THEN Returned(sendError(StatusBadRequest, MsgInvalidFileType, FALSE, <<>>), {}, <<>>)
        ELSE IF file.upload = "open_failed"
        THEN Returned(sendError(StatusInternalServerError, MsgFailedToOpen, TRUE, ErrOpen),
                      {}, <<>>)
        ELSE IF file.upload = "read_failed"
        THEN Returned(sendError(StatusInternalServerError, MsgFailedToRead, TRUE, ErrRead),
                      {}, <<>>)
        ELSE
          LET r == ExtractFromFile([mimeType |-> mimeType, Password |-> job.Password,
                                    pdf |-> file.pdf, image |-> file.image,
                                    parseFinds |-> job.parseFinds])
          IN  IF r.ret.err
              THEN IF Contains(r.ret.errText, WordDecrypt)
                   THEN Returned(sendError(StatusBadRequest, MsgDecryptCheckPassword,
                                           TRUE, r.ret.errText), r.fs, r.calls)
                   ELSE Returned(sendError(StatusInternalServerError, MsgFailedToExtract,
                                           TRUE, r.ret.errText), r.fs, r.calls)
              ELSE Returned([status |-> StatusOK, body |-> r.ret], r.fs, r.calls)

ExtractAadhaar(job) ==
    IF Len(job.files) = 0
    THEN Returned(sendError(StatusBadRequest, MsgFileRequired, TRUE, ErrNoSuchFile),
                  {}, <<>>)
    ELSE IF Len(job.files) > 1 THEN ExtractAadhaarMulti(job)
    ELSE ExtractAadhaarSingle(job)

Upload(name, ct, up, pdf, im) ==
    [Filename |-> name, contentType |-> ct, upload |-> up, pdf |-> pdf, image |-> im]

AadhaarRequest(files, pw, pf) ==
    [op |-> "ExtractAadhaar", files |-> files, Password |-> pw, parseFinds |-> pf]

\* image uploads of a request with several files
ImageUploads ==
    {Upload(NamePng, ct, up, NoPdf, im) :
        ct \in {MimePng, MimeText, <<>>}, up \in {"ok", "open_failed", "read_failed"},
        im \in {UndecodableImage, IdImage(TRUE, NoQR, TRUE, PrintedText),
                IdImage(TRUE, NoQR, TRUE, Engine(TRUE, <<>>, 0))}}

ExtractAadhaarJobs ==
    {AadhaarRequest(<<Upload(NamePdf, ct, "ok",
                             Pdf(ac[1], TextOf("t", MinTextLayerLen), pgs),
                             UndecodableImage)>>, ac[2], pf) :
        ct \in {MimePdf, <<>>}, ac \in PdfAccess, pgs \in SeqsUpTo(IdPageValues, 1),
        pf \in BOOLEAN}
    \cup {AadhaarRequest(<<f>>, "", TRUE) : f \in ImageUploads}
    \cup {AadhaarRequest(<<>>, "", TRUE)}
    \cup {AadhaarRequest(<<f, g>>, "", pf) :
            f \in {Upload(NamePng, MimePng, "ok", NoPdf,
                          IdImage(TRUE, NoQR, TRUE, PrintedText)),
                   Upload(NamePdf, MimePdf, "ok",
                          Pdf(FALSE, <<>>, <<IdImage(TRUE, NoQR, TRUE, PrintedText)>>),
                          UndecodableImage)},
            g \in ImageUploads, pf \in BOOLEAN}

(***************************************************************************)
(* EmployeeService.ProcessEmployeeDocs and the parsers of the employee ID  *)
(* card and of the appointment letter.                                     *)
(***************************************************************************)
\* [A-Z][a-z]+
CapitalisedWord(w) ==
    /\ Len(w) >= 2
    /\ \E i \in 1..Len(UpperLetters) : UpperLetters[i] = w[1]
    /\ \A k \in 2..Len(w) : \E i \in 1..Len(LowerLetters) : LowerLetters[i] = w[k]

\* ^[A-Z][a-z]+ [A-Z][a-z]+$
IsFirstLastName(line) ==
    \E k \in 1..Len(line) :
        /\ line[k] = " "
        /\ CapitalisedWord(SubSeq(line, 1, k - 1))
        /\ CapitalisedWord(SubSeq(line, k + 1, Len(line)))

\* employeeid.ParseNameID: the first trimmed line that is a first and a last
\* name
ParseNameID(text) ==
    LET lines == Split(text, "\n")
        named == {i \in 1..Len(lines) : IsFirstLastName(TrimSpace(lines[i]))}
    IN  IF named = {} THEN <<>> ELSE TrimSpace(lines[Least(named)])

TechNova ==
    <<"T","e","c","h","N","o","v","a"," ","S","o","l","u","t","i","o","n","s"," ",
          "P","v","t"," ","L","t","d">>

\* employeeid.ParseCompanyID and appointmentletter.ParseCompanyLetter
ParseCompanyID(text) == IF Contains(text, TechNova) THEN TechNova ELSE <<>>

ParseCompanyLetter(text) == IF Contains(text, TechNova) THEN TechNova ELSE <<>>

\* (?i)Dear\s+([A-Z][A-Za-z]+ [A-Za-z]+) at position p: <<capture>>, or <<>>
DearNameAt(text, p) ==
    LET q == SkipWhile(text, p + 4, RegexSpace)
        r == SkipWhile(text, q, Letters)
        e == SkipWhile(text, r + 1, Letters)
    IN  IF /\ MatchesAt(text, p, <<"d","e","a","r">>)
           /\ q > p + 4
           /\ r >= q + 2
           /\ r <= Len(text) /\ text[r] = " "
           /\ e > r + 1
        THEN <<SubSeq(text, q, e - 1)>>
        ELSE <<>>

\* appointmentletter.ParseNameLetter: the second line after a line "To." when
\* it is a first and a last name, else the name after "Dear"
ParseNameLetter(text) ==
    LET lines == Split(text, "\n")
        addressed == {i \in 1..Len(lines) :
                         /\ TrimSpace(lines[i]) = <<"T", "o", ".">>
                         /\ i + 2 <= Len(lines)
                         /\ IsFirstLastName(TrimSpace(lines[i + 2]))}
        greeted == {p \in 1..Len(text) : DearNameAt(text, p) # <<>>}
    IN  IF addressed # {} THEN TrimSpace(lines[Least(addressed) + 2])
        ELSE IF greeted # {} THEN DearNameAt(text, Least(greeted))[1]
        ELSE <<>>

\* strings.EqualFold on ASCII text
EqualFold(s, t) == ToLower(s) = ToLower(t)

\* ProcessEmployeeDocs: the names, the companies and the validation of the
\* response (the other fields of the two records come from parsers of their
\* own and take no part in the validation)
ProcessEmployeeDocs(job) ==
    LET calls0 == <<Call("ocr.ExtractText", 1)>>
        calls1 == Append(calls0, Call("ocr.ExtractText", 2))
        empData == [Name |-> ParseNameID(job.empCard.text),
                    Company |-> ParseCompanyID(job.empCard.text)]
        appData == [Name |-> ParseNameLetter(job.appLetter.text),
                    Company |-> ParseCompanyLetter(job.appLetter.text)]
    IN  IF job.empCard.err
        THEN Returned([err |-> TRUE, msg |-> "failed to OCR employee ID card"], {}, calls0)
        ELSE IF job.appLetter.err
        THEN Returned([err |-> TRUE, msg |-> "failed to OCR appointment letter"],
                      {}, calls1)
        ELSE Returned([err |-> FALSE,
                       EmployeeIDData |-> empData,
                       AppointmentLetterData |-> appData,
                       Validation |->
                           [NameMatch |-> EqualFold(empData.Name, appData.Name),
                            CompanyMatch |-> EqualFold(empData.Company, appData.Company)]],
                      {}, calls1)

\* texts of employee ID cards: with a name and the company, with a name in
\* capitals (not recognised as a name), with nothing to find
CardTexts ==
    {<<"T","e","c","h","N","o","v","a"," ","S","o","l","u","t","i","o","n","s"," ",
          "P","v","t"," ","L","t","d","\n","R","o","h","a","n"," ","S","h","a","r","m",
          "a","\n","E","M","P","-","1","2","3","4">>,
     <<"R","o","h","a","n"," ","S","h","a","r","m","a","\n","E","M","P","-","1","2",
          "3","4">>,
     <<"T","e","c","h","N","o","v","a"," ","S","o","l","u","t","i","o","n","s","\n",
          "R","O","H","A","N"," ","S","H","A","R","M","A">>,
     <<"I","D"," ","C","A","R","D">>,
     <<>>}

\* texts of appointment letters: addressed to the name, greeting the name
\* in small letters, another name, no name
LetterTexts ==
    {<<"T","o",".","\n","\n","R","o","h","a","n"," ","S","h","a","r","m","a","\n",
          "T","e","c","h","N","o","v","a"," ","S","o","l","u","t","i","o","n","s"," ",
          "P","v","t"," ","L","t","d">>,
     <<"D","e","a","r"," ","r","o","h","a","n"," ","s","h","a","r","m","a",",","\n",
          "w","e","l","c","o","m","e"," ","t","o"," ","T","e","c","h","N","o","v","a",
          " ","S","o","l","u","t","i","o","n","s"," ","P","v","t"," ","L","t","d">>,
     <<"D","e","a","r"," ","R","o","s","h","a","n"," ","K","u","m","a","r","a",",",
          "\n","w","e","l","c","o","m","e">>,
     <<"T","o",".","\n","t","h","e"," ","e","m","p","l","o","y","e","e","\n","L","o",
          "c","a","t","i","o","n",":"," ","P","u","n","e">>,
     <<>>}

ProcessEmployeeDocsJobs ==
    {[op |-> "ProcessEmployeeDocs",
      empCard |-> Engine(FALSE, card, 0), appLetter |-> Engine(FALSE, letter, 0)] :
        card \in CardTexts, letter \in LetterTexts}
    \cup
    {[op |-> "ProcessEmployeeDocs", empCard |-> Engine(ce, <<>>, 0),
      appLetter |-> Engine(le, <<>>, 0)] : ce \in BOOLEAN, le \in BOOLEAN}

(***************************************************************************)
(* SpecDoc: one cascade invocation on one job.                             *)
(***************************************************************************)
DocJobs ==
    ProcessDocumentJobs \cup AnalyzeITRJobs \cup ExtractFromFileJobs
        \cup ExtractFromOCRJobs \cup ExtractAadhaarJobs \cup ExtractFromImagesJobs
        \cup ProcessEmployeeDocsJobs

DocInit ==
    /\ cdJob \in DocJobs
    /\ cdPhase = "called"
    /\ cdOut = <<>>
    /\ cdFs = {}
    /\ cdCalls = <<>>
    /\ NamesIdle
    /\ CrossIdle
    /\ BatchIdle
    /\ ParseIdle

Return(r) ==
    /\ cdOut' = r.ret
    /\ cdFs' = cdFs \cup r.fs
    /\ cdCalls' = r.calls
    /\ cdPhase' = "returned"
    /\ UNCHANGED cdJob
    /\ UNCHANGED <<nameVars, crossVars, batchVars, parseVars>>

CallProcessDocument ==
    /\ cdPhase = "called"
    /\ cdJob.op = "ProcessDocument"
    /\ Return(ProcessDocument(cdJob))

CallAnalyzeITR ==
    /\ cdPhase = "called"
    /\ cdJob.op = "AnalyzeITR"
    /\ Return(AnalyzeITR(cdJob))

CallExtractFromFile ==
    /\ cdPhase = "called"
    /\ cdJob.op = "ExtractFromFile"
    /\ Return(ExtractFromFile(cdJob))

CallExtractFromOCR ==
    /\ cdPhase = "called"
    /\ cdJob.op = "extractFromOCR"
    /\ Return(extractFromOCR(cdJob))

CallExtractFromImages ==
    /\ cdPhase = "called"
    /\ cdJob.op = "ExtractFromImages"
    /\ Return(ExtractFromImages(cdJob))

CallExtractAadhaar ==
    /\ cdPhase = "called"
    /\ cdJob.op = "ExtractAadhaar"
    /\ Return(ExtractAadhaar(cdJob))

CallProcessEmployeeDocs ==
    /\ cdPhase = "called"
    /\ cdJob.op = "ProcessEmployeeDocs"
    /\ Return(ProcessEmployeeDocs(cdJob))

DocNext ==
    \/ CallProcessEmployeeDocs
    \/ CallExtractAadhaar
    \/ CallExtractFromImages
    \/ CallProcessDocument
    \/ CallAnalyzeITR
    \/ CallExtractFromFile
    \/ CallExtractFromOCR

SpecDoc == DocInit /\ [][DocNext]_vars

CalledFns == {cdCalls[k].fn : k \in 1..Len(cdCalls)}

OcrEngineFns ==
    {"paddleClient.ExtractText", "paddleClient.ExtractTextFromFile",
     "tesseractClient.ExtractTextAndQuality",
     "tesseractClient.ExtractTextAndQualityFromFile"}

\* the length of a text without its leading and trailing white space
VisibleAt(s) == {i \in 1..Len(s) : ~IsSpace(s[i])}
TrimmedLen(s) ==
    IF VisibleAt(s) = {} THEN 0
    ELSE (CHOOSE i \in VisibleAt(s) : \A j \in VisibleAt(s) : j <= i)
           - (CHOOSE i \in VisibleAt(s) : \A j \in VisibleAt(s) : i <= j) + 1

\* the job is a PDF whose direct text-layer extraction succeeds with at
\* least MinTextLayerLen characters after trimming
HasTextLayer(job) ==
    /\ HasSuffix(ToLower(job.Filename), DotPdf)
    /\ (job.pdf.encrypted => job.Password = job.pdf.password)
    /\ TrimmedLen(job.pdf.textLayer) >= MinTextLayerLen

\* C1: for a PDF job whose text layer yields at least the threshold of
\* trimmed characters, ProcessDocument calls neither ExtractImages nor any
\* OCR engine, and the text is accepted with score 100 and no quality issue.
C1_TextLayerShortCircuit ==
    (cdPhase = "returned" /\ cdJob.op = "ProcessDocument" /\ HasTextLayer(cdJob)) =>
        /\ "pdfProcessor.ExtractImages" \notin CalledFns
        /\ "saveImageToTempFile" \notin CalledFns
        /\ CalledFns \cap OcrEngineFns = {}
        /\ ~cdOut.err =>
              /\ cdOut.parsedFrom = cdJob.pdf.textLayer
              /\ ScoreIs(cdOut.Quality.FinalScore, 100)
              /\ ScoreIs(cdOut.Quality.OcrConfidence, 100)
              /\ cdOut.Quality.Issues = <<>>
        /\ cdOut.err <=> cdJob.DocType \notin {"salary_slip", "bank_statement"}

\* a PDF with exactly the threshold of text and pages that would OCR well
C1_Witness ==
    /\ cdPhase = "returned"
    /\ cdJob.op = "ProcessDocument"
    /\ HasTextLayer(cdJob)
    /\ cdJob.pdf.textLayer = TextOf("t", MinTextLayerLen)
    /\ Len(cdJob.pdf.pages) > 0
    /\ cdJob.pdf.pages[1].save = "ok"
    /\ ~cdJob.pdf.pages[1].paddle.err
    /\ ~cdOut.err
    /\ ScoreIs(cdOut.Quality.FinalScore, 100)

\* C7: when a cascade invocation returns, no temporary rasterized-image
\* file created during the invocation still exists, on every exit path.
C7_NoTempImageAfterReturn ==
    cdPhase = "returned" => cdFs = {}

\* the image a logged call of the code reader was given
ImageAt(job, at) == IF at = 0 THEN job.image ELSE job.pdf.pages[at]

\* the record is built from the payload d only
BuiltFromPayload(r, d) ==
    /\ ~r.err
    /\ r.Source = "qr"
    /\ r.Name = d.Name
    /\ r.Gender = d.Gender
    /\ r.DOB = (IF d.DateOfBirth # <<>> THEN d.DateOfBirth ELSE d.YearOfBirth)
    /\ Len(d.UID) >= 4 => (Len(r.AadhaarLast4) = 4 /\ HasSuffix(d.UID, r.AadhaarLast4))
    /\ Len(d.UID) < 4 => r.AadhaarLast4 = d.UID
    /\ \A part \in {d.CO, d.House, d.Street, d.Landmark, d.Locality, d.VTC, d.PO,
                    d.SubDistrict, d.District, d.State, d.PC} :
          Contains(r.Address, part)
    /\ Len(r.Address) > 0 =>
          \E part \in {d.CO, d.House, d.Street, d.Landmark, d.Locality, d.VTC, d.PO,
                       d.SubDistrict, d.District, d.State, d.PC} : part # <<>>

\* C2: whenever the code reader decodes the payload of an identity document,
\* ExtractFromFile returns the record built from that payload (Source "qr")
\* and runs no OCR engine and no text parser, whatever text the image carries.
C2_QRPrecedence ==
    (cdPhase = "returned" /\ cdJob.op = "ExtractFromFile") =>
        \A k \in 1..Len(cdCalls) :
            (/\ cdCalls[k].fn = "extractFromQR"
             /\ ImageAt(cdJob, cdCalls[k].arg).bitmap
             /\ ImageAt(cdJob, cdCalls[k].arg).qr.kind = "xml") =>
                /\ BuiltFromPayload(cdOut, ImageAt(cdJob, cdCalls[k].arg).qr.data)
                /\ CalledFns \cap OcrEngineFns = {}
                /\ "utils.ParseAadhaarFromText" \notin CalledFns

\* a two-page PDF whose second page carries a payload and printed text
C2_Witness ==
    /\ cdPhase = "returned"
    /\ cdJob.op = "ExtractFromFile"
    /\ Len(cdJob.pdf.pages) = 2
    /\ cdJob.pdf.pages[2].qr.kind = "xml"
    /\ Len(cdJob.pdf.pages[2].qr.data.UID) > 4
    /\ ~cdJob.pdf.pages[2].paddle.err
    /\ ~cdJob.pdf.pages[1].paddle.err
    /\ ~cdOut.err
    /\ cdOut.Source = "qr"
    /\ cdOut.AadhaarLast4 = <<"9", "0", "1", "2">>

(***************************************************************************)
(* IncomeService.VerifyIncome: the caller parses the manifest, starts one  *)
(* goroutine per document that has an upload, waits for all of them and    *)
(* answers.  A step of a goroutine is one of its statements; the append to *)
(* a shared slice is a read of the slice followed by a write.              *)
(***************************************************************************)
MaxDocs == 2

\* sync.Mutex.Lock returns when the mutex is free
CanLockAlways(m) == TRUE

CanLock(m) == m = 0

\* sync.WaitGroup.Wait returns when the counter is zero
WaitReturnsEarly(n) == n <= 1

WaitReturns(n) == n = 0

\* len(errors) > 0
HasErrorsTwo(errs) == Len(errs) > 1

HasErrors(errs) == Len(errs) > 0

DefaultMinQualityScore == 60

\* a document of the manifest: whether a file of that name was uploaded,
\* what opening and reading the upload does, the job ProcessDocument is
\* given, and the fields the parser reads from the document's text
Doc(up, io, job, parsed) ==
    [uploaded |-> up, upload |-> io, job |-> job, parsed |-> parsed]

JobTextPdf(dt) ==
    [op |-> "ProcessDocument", Filename |-> NamePdf, DocType |-> dt, Password |-> "",
     pdf |-> Pdf(FALSE, TextOf("t", MinTextLayerLen), <<>>), image |-> NoImage,
     paddleAvailable |-> TRUE]

JobBadImage ==
    [op |-> "ProcessDocument", Filename |-> NamePng, DocType |-> "salary_slip",
     Password |-> "", pdf |-> NoPdf, image |-> NoImage,
     paddleAvailable |-> TRUE]

SlipA == Slip(JohnDoe, Acct1, Amount50k, "October 2025")
StmtA == Stmt(JohnDoe, Acct1, <<Tx(TRUE, Amount50k)>>)

StmtB == Stmt(RaviKumar, Acct3, <<Tx(TRUE, Amount40k)>>)

\* what the parsers return for a text without any field
SlipNone == Slip(<<>>, <<>>, 0, "")

\* a protected PDF given the wrong password
JobWrongPassword ==
    [op |-> "ProcessDocument", Filename |-> NamePdf, DocType |-> "salary_slip",
     Password |-> "wrong",
     pdf |-> Pdf(TRUE, TextOf("t", MinTextLayerLen), <<>>), image |-> NoImage,
     paddleAvailable |-> TRUE]

\* a scanned PDF: no text layer, and on its one page both engines fail
JobExhausted ==
    [op |-> "ProcessDocument", Filename |-> NamePdf, DocType |-> "salary_slip",
     Password |-> "",
     pdf |-> Pdf(FALSE, <<>>, <<Page("ok", Engine(TRUE, <<>>, 0), Engine(TRUE, <<>>, 0))>>),
     image |-> NoImage,
     paddleAvailable |-> TRUE]

BatchDocValues ==
    {Doc(FALSE, "ok", JobTextPdf("salary_slip"), SlipA),
     Doc(TRUE, "open_failed", JobTextPdf("salary_slip"), SlipA),
     Doc(TRUE, "read_failed", JobTextPdf("bank_statement"), StmtA),
     Doc(TRUE, "ok", JobTextPdf("salary_slip"), SlipA),
     Doc(TRUE, "ok", JobTextPdf("bank_statement"), StmtA),
     Doc(TRUE, "ok", JobBadImage, SlipA)}

\* the record a parser returns for the document, with the quality set by
\* ProcessDocument
ParsedRecord(doc, ret) ==
    IF ret.kind = "SalarySlipData"
    THEN [EmployeeName |-> doc.parsed.EmployeeName,
          AccountNumber |-> doc.parsed.AccountNumber,
          NetSalary |-> doc.parsed.NetSalary,
          PayMonth |-> doc.parsed.PayMonth,
          Quality |-> ret.Quality]
    ELSE [AccountHolderName |-> doc.parsed.AccountHolderName,
          AccountNumber |-> doc.parsed.AccountNumber,
          Transactions |-> doc.parsed.Transactions,
          Quality |-> ret.Quality]

\* batches of three documents: a slip with two different statements, in both
\* manifest orders, and a slip with a document that cannot be read
LongBatches ==
    {<<Doc(TRUE, "ok", JobTextPdf("salary_slip"), SlipA),
       Doc(TRUE, "ok", JobTextPdf("bank_statement"), StmtA),
       Doc(TRUE, "ok", JobTextPdf("bank_statement"), StmtB)>>,
     <<Doc(TRUE, "ok", JobTextPdf("salary_slip"), SlipA),
       Doc(TRUE, "ok", JobTextPdf("bank_statement"), StmtB),
       Doc(TRUE, "ok", JobTextPdf("bank_statement"), StmtA)>>,
     <<Doc(TRUE, "ok", JobTextPdf("salary_slip"), SlipA),
       Doc(TRUE, "ok", JobTextPdf("bank_statement"), StmtA),
       Doc(TRUE, "ok", JobWrongPassword, SlipNone)>>,
     <<Doc(TRUE, "ok", JobTextPdf("salary_slip"), SlipA),
       Doc(TRUE, "ok", JobTextPdf("bank_statement"), StmtA),
       Doc(TRUE, "ok", JobExhausted, SlipNone)>>}

Batches == SeqsUpTo(BatchDocValues, MaxDocs) \cup LongBatches

TaskError(i, msg, cause) == [err |-> TRUE, doc |-> i, msg |-> msg, cause |-> cause]

BatchInit ==
    /\ metadataOK \in BOOLEAN
    /\ documents \in Batches
    /\ mainPc = "parse"
    /\ docIdx = 1
    /\ taskPc = [i \in 1..Len(documents) |-> "idle"]
    /\ taskResult = [i \in 1..Len(documents) |-> <<>>]
    /\ taskSeen = [i \in 1..Len(documents) |-> <<>>]
    /\ mu = 0
    /\ wg = 0
    /\ salarySlips = <<>>
    /\ bankStatements = <<>>
    /\ errors = <<>>
    /\ response = <<>>
    /\ NamesIdle
    /\ CrossIdle
    /\ DocIdle
    /\ ParseIdle

otherVars == <<nameVars, crossVars, docVars, parseVars>>
sharedVars == <<salarySlips, bankStatements, errors>>
taskVars == <<taskPc, taskResult, taskSeen>>

\* json.Unmarshal of the manifest
ParseMetadata ==
    /\ mainPc = "parse"
    /\ IF metadataOK
       THEN /\ mainPc' = "spawn"
            /\ UNCHANGED response
       ELSE /\ mainPc' = "returned"
            /\ response' = [err |-> TRUE, error |-> TaskError(0, "invalid metadata JSON", "")]
    /\ UNCHANGED <<metadataOK, documents, docIdx, taskVars, mu, wg, sharedVars, otherVars>>

\* the loop body for a document without an upload: a warning, continue
InFileMapAlways(doc) == TRUE

\* fileHeader, ok := fileMap[docMeta.Filename]
InFileMap(doc) == doc.uploaded

SkipMissing ==
    /\ mainPc = "spawn"
    /\ docIdx <= Len(documents)
    /\ ~InFileMap(documents[docIdx])
    /\ docIdx' = docIdx + 1
    /\ UNCHANGED <<metadataOK, documents, mainPc, taskVars, mu, wg, sharedVars, response,
                   otherVars>>

\* wg.Add(1); go func(...)
StartTask ==
    /\ mainPc = "spawn"
    /\ docIdx <= Len(documents)
    /\ InFileMap(documents[docIdx])
    /\ wg' = wg + 1
    /\ taskPc' = [taskPc EXCEPT ![docIdx] = "open"]
    /\ docIdx' = docIdx + 1
    /\ UNCHANGED <<metadataOK, documents, mainPc, taskResult, taskSeen, mu, sharedVars,
                   response, otherVars>>

EndLoop ==
    /\ mainPc = "spawn"
    /\ docIdx > Len(documents)
    /\ mainPc' = "wait"
    /\ UNCHANGED <<metadataOK, documents, docIdx, taskVars, mu, wg, sharedVars, response,
                   otherVars>>

\* wg.Wait()
Wait ==
    /\ mainPc = "wait"
    /\ WaitReturns(wg)
    /\ mainPc' = "joined"
    /\ UNCHANGED <<metadataOK, documents, docIdx, taskVars, mu, wg, sharedVars, response,
                   otherVars>>

\* the error check, CrossCheck and the response
Respond ==
    /\ mainPc = "joined"
    /\ response' =
          IF HasErrors(errors)
          THEN [err |-> TRUE, error |-> errors[1]]
          ELSE [err |-> FALSE,
                SalarySlips |-> salarySlips,
                BankStatements |-> bankStatements,
                CrossCheck |-> CrossCheck(salarySlips, bankStatements),
                MinQualityScore |-> DefaultMinQualityScore]
    /\ mainPc' = "returned"
    /\ UNCHANGED <<metadataOK, documents, docIdx, taskVars, mu, wg, sharedVars, otherVars>>

TaskLocal(i, next, result) ==
    /\ taskPc' = [taskPc EXCEPT ![i] = next]
    /\ taskResult' = [taskResult EXCEPT ![i] = result]
    /\ UNCHANGED <<metadataOK, documents, mainPc, docIdx, taskSeen, mu, wg, sharedVars,
                   response, otherVars>>

\* file.Open()
TaskOpen(i) ==
    /\ taskPc[i] = "open"
    /\ IF documents[i].upload = "open_failed"
       THEN TaskLocal(i, "lock", TaskError(i, "failed to open file", "open"))
       ELSE TaskLocal(i, "read", taskResult[i])

\* io.ReadAll(f)
TaskRead(i) ==
    /\ taskPc[i] = "read"
    /\ IF documents[i].upload = "read_failed"
       THEN TaskLocal(i, "lock", TaskError(i, "failed to read file", "read"))
       ELSE TaskLocal(i, "process", taskResult[i])

\* s.ProcessDocument(...)
TaskProcess(i) ==
    /\ taskPc[i] = "process"
    /\ LET ret == ProcessDocument(documents[i].job).ret
       IN  IF ret.err
           THEN TaskLocal(i, "lock", TaskError(i, "failed to process file", ret.msg))
           ELSE TaskLocal(i, "lock",
                          [err |-> FALSE, kind |-> ret.kind,
                           data |-> ParsedRecord(documents[i], ret)])

\* mu.Lock()
TaskLock(i) ==
    /\ taskPc[i] = "lock"
    /\ CanLock(mu)
    /\ mu' = i
    /\ taskPc' = [taskPc EXCEPT ![i] = "load"]
    /\ UNCHANGED <<metadataOK, documents, mainPc, docIdx, taskResult, taskSeen, wg, sharedVars,
                   response, otherVars>>

\* a type switch whose second case also appends to salarySlips
TargetOfSalarySlips(r) ==
    IF r.err THEN "errors" ELSE "salarySlips"

\* the slice the task's result belongs to
TargetOf(r) ==
    IF r.err THEN "errors"
    ELSE IF r.kind = "SalarySlipData" THEN "salarySlips"
    ELSE "bankStatements"

\* what the task appends
ItemOf(r) == IF r.err THEN r ELSE r.data

\* append(...): the read of the slice
TaskLoad(i) ==
    /\ taskPc[i] = "load"
    /\ taskSeen' = [taskSeen EXCEPT ![i] =
                      IF TargetOf(taskResult[i]) = "errors" THEN errors
                      ELSE IF TargetOf(taskResult[i]) = "salarySlips" THEN salarySlips
                      ELSE bankStatements]
    /\ taskPc' = [taskPc EXCEPT ![i] = "store"]
    /\ UNCHANGED <<metadataOK, documents, mainPc, docIdx, taskResult, mu, wg, sharedVars,
                   response, otherVars>>

\* append(...): the write of the slice
TaskStore(i) ==
    /\ taskPc[i] = "store"
    /\ LET grown == Append(taskSeen[i], ItemOf(taskResult[i]))
           target == TargetOf(taskResult[i])
       IN  /\ errors' = IF target = "errors" THEN grown ELSE errors
           /\ salarySlips' = IF target = "salarySlips" THEN grown ELSE salarySlips
           /\ bankStatements' = IF target = "bankStatements" THEN grown ELSE bankStatements
    /\ taskPc' = [taskPc EXCEPT ![i] = "unlock"]
    /\ UNCHANGED <<metadataOK, documents, mainPc, docIdx, taskResult, taskSeen, mu, wg,
                   response, otherVars>>

\* mu.Unlock()
TaskUnlock(i) ==
    /\ taskPc[i] = "unlock"
    /\ mu' = 0
    /\ taskPc' = [taskPc EXCEPT ![i] = "done"]
    /\ UNCHANGED <<metadataOK, documents, mainPc, docIdx, taskResult, taskSeen, wg, sharedVars,
                   response, otherVars>>

\* the deferred wg.Done(), the goroutine's last statement
TaskDone(i) ==
    /\ taskPc[i] = "done"
    /\ wg' = wg - 1
    /\ taskPc' = [taskPc EXCEPT ![i] = "exited"]
    /\ UNCHANGED <<metadataOK, documents, mainPc, docIdx, taskResult, taskSeen, mu, sharedVars,
                   response, otherVars>>

TaskOpens == \E i \in 1..Len(documents) : TaskOpen(i)
TaskReads == \E i \in 1..Len(documents) : TaskRead(i)
TaskProcesses == \E i \in 1..Len(documents) : TaskProcess(i)
TaskLocks == \E i \in 1..Len(documents) : TaskLock(i)
TaskLoads == \E i \in 1..Len(documents) : TaskLoad(i)
TaskStores == \E i \in 1..Len(documents) : TaskStore(i)
TaskUnlocks == \E i \in 1..Len(documents) : TaskUnlock(i)
TaskDones == \E i \in 1..Len(documents) : TaskDone(i)

BatchNext ==
    \/ ParseMetadata
    \/ SkipMissing
    \/ StartTask
    \/ EndLoop
    \/ Wait
    \/ Respond
    \/ TaskOpens
    \/ TaskReads
    \/ TaskProcesses
    \/ TaskLocks
    \/ TaskLoads
    \/ TaskStores
    \/ TaskUnlocks
    \/ TaskDones

SpecBatch == BatchInit /\ [][BatchNext]_vars

Tasks == 1..Len(documents)
Appended == {i \in Tasks : taskPc[i] \in {"unlock", "done", "exited"}}
InCriticalSection == {i \in Tasks : taskPc[i] \in {"load", "store", "unlock"}}

\* the number of tasks in T whose result goes to the slice named target
CountFor(T, target) == Cardinality({i \in T : TargetOf(taskResult[i]) = target})

\* C8 as stated: VerifyIncome returns a response if and only if no task
\* recorded an error.
C8_ResponseIffNoTaskError ==
    mainPc = "returned" => (~response.err <=> errors = <<>>)

\* C8: for a manifest that parses, VerifyIncome returns a response if and
\* only if no task recorded an error; with a recorded error it returns the
\* first recorded error and no response, whatever records other tasks
\* appended; a manifest that does not parse returns an error before any
\* task is started.
C8_AbortOnError ==
    mainPc = "returned" =>
        /\ metadataOK =>
              /\ ~response.err <=> errors = <<>>
              /\ errors # <<>> => response = [err |-> TRUE, error |-> errors[1]]
              /\ errors = <<>> =>
                    /\ response.SalarySlips = salarySlips
                    /\ response.BankStatements = bankStatements
        /\ ~metadataOK =>
              /\ response.err
              /\ \A i \in Tasks : taskPc[i] = "idle"

\* one task failed and another appended its record; the answer is the error
C8_Witness ==
    /\ mainPc = "returned"
    /\ metadataOK
    /\ Len(errors) = 1
    /\ Len(salarySlips) = 1
    /\ response.err
    /\ response.error.msg = "failed to process file"

\* C9: the error check, CrossCheck and the response happen only after every
\* started task has finished: once Wait has returned, each document with an
\* upload has a task that has exited and whose record or error is in its
\* slice, and no response exists before that.
C9_JoinBeforeOutput ==
    /\ mainPc \in {"joined", "returned"} /\ metadataOK =>
          /\ \A i \in Tasks : taskPc[i] = (IF documents[i].uploaded THEN "exited" ELSE "idle")
          /\ wg = 0
          /\ Len(errors) = CountFor(Tasks \ {i \in Tasks : taskPc[i] = "idle"}, "errors")
          /\ Len(salarySlips)
               = CountFor(Tasks \ {i \in Tasks : taskPc[i] = "idle"}, "salarySlips")
          /\ Len(bankStatements)
               = CountFor(Tasks \ {i \in Tasks : taskPc[i] = "idle"}, "bankStatements")
    /\ response # <<>> => mainPc = "returned"

\* two tasks ran, both have exited, and the response holds both records
C9_Witness ==
    /\ mainPc = "returned"
    /\ Len(documents) = 2
    /\ \A i \in Tasks : taskPc[i] = "exited"
    /\ ~response.err
    /\ Len(response.SalarySlips) = 1
    /\ Len(response.BankStatements) = 1

\* C10: a task reads or writes the shared slices only while it holds the
\* lock, at most one task is in a critical section, every finished append
\* is in its slice (none is lost), and what a task appends is its own
\* result, computed from its own document.
C10_MutualExclusion ==
    /\ \A i \in InCriticalSection : mu = i
    /\ Cardinality(InCriticalSection) <= 1
    /\ Len(errors) = CountFor(Appended, "errors")
    /\ Len(salarySlips) = CountFor(Appended, "salarySlips")
    /\ Len(bankStatements) = CountFor(Appended, "bankStatements")
    /\ \A i \in Appended :
          /\ TargetOf(taskResult[i]) = "errors" =>
                \E k \in 1..Len(errors) : errors[k] = taskResult[i] /\ errors[k].doc = i
          /\ TargetOf(taskResult[i]) = "salarySlips" =>
                \E k \in 1..Len(salarySlips) :
                    /\ salarySlips[k] = taskResult[i].data
                    /\ salarySlips[k].EmployeeName = documents[i].parsed.EmployeeName
          /\ TargetOf(taskResult[i]) = "bankStatements" =>
                \E k \in 1..Len(bankStatements) :
                    /\ bankStatements[k] = taskResult[i].data
                    /\ bankStatements[k].AccountHolderName
                         = documents[i].parsed.AccountHolderName

\* one task is writing the slice while another waits for the lock
C10_Witness ==
    /\ Len(documents) = 2
    /\ taskPc[1] = "store"
    /\ taskPc[2] = "lock"
    /\ mu = 1
    /\ TargetOf(taskResult[1]) = TargetOf(taskResult[2])

\* the records of the batch in manifest order: what a run in which every
\* task finishes before the next one starts appends to the slice named kind
RECURSIVE ManifestRecords(_, _)
ManifestRecords(docs, kind) ==
    IF docs = <<>> THEN <<>>
    ELSE LET ret == ProcessDocument(Head(docs).job).ret
             rest == ManifestRecords(Tail(docs), kind)
         IN  IF Head(docs).uploaded /\ Head(docs).upload = "ok" /\ ~ret.err
                  /\ ret.kind = kind
             THEN <<ParsedRecord(Head(docs), ret)>> \o rest
             ELSE rest

\* C11: for a fixed batch in which every task succeeds, VerifyIncome returns
\* one verdict whatever the interleaving of the tasks: the verdict of the run
\* in which the tasks append in manifest order, whose reference statement is
\* the first statement of the manifest.
C11_VerdictSameUnderEveryInterleaving ==
    (mainPc = "returned" /\ metadataOK /\ ~response.err) =>
        response.CrossCheck
            = CrossCheck(ManifestRecords(documents, "SalarySlipData"),
                         ManifestRecords(documents, "BankStatementData"))

\* the job is a protected PDF and the password supplied for it is wrong
DecryptionFailure(job) ==
    /\ HasSuffix(ToLower(job.Filename), DotPdf)
    /\ job.pdf.encrypted
    /\ job.Password # ""
    /\ job.Password # job.pdf.password

\* the page gives no text: it cannot be saved, or neither engine reads it
PageYieldsNoText(page) ==
    \/ page.save # "ok"
    \/ /\ page.paddle.err \/ TrimmedLen(page.paddle.text) = 0
       /\ page.tess.err \/ TrimmedLen(page.tess.text) = 0

\* the job is a readable PDF without text layer whose pages give no text
ExtractionExhausted(job) ==
    /\ HasSuffix(ToLower(job.Filename), DotPdf)
    /\ ~DecryptionFailure(job)
    /\ TrimmedLen(job.pdf.textLayer) = 0
    /\ \A k \in 1..Len(job.pdf.pages) : PageYieldsNoText(job.pdf.pages[k])

TerminalFailure(job) == DecryptionFailure(job) \/ ExtractionExhausted(job)

\* C12: if the task of some document of the batch meets a decryption
\* failure or extraction exhaustion, its ProcessDocument result is an error
\* and VerifyIncome returns an error instead of a response.
C12_TerminalFailureAbortsBatch ==
    (mainPc = "returned" /\ metadataOK) =>
        \A i \in Tasks :
            (/\ documents[i].uploaded
             /\ documents[i].upload = "ok"
             /\ TerminalFailure(documents[i].job)) =>
                /\ taskResult[i].err
                /\ response.err

\* a password was supplied for the protected PDF and it is wrong
WrongPassword(pdf, password) ==
    pdf.encrypted /\ password # "" /\ password # pdf.password

\* the handler gave the one PDF of the request to ExtractFromFile
PdfReachedService(job) ==
    /\ job.op = "ExtractAadhaar"
    /\ Len(job.files) = 1
    /\ job.files[1].upload = "ok"
    /\ job.files[1].contentType = MimePdf
         \/ (job.files[1].contentType = <<>>
               /\ HasSuffix(ToLower(job.files[1].Filename), DotPdf))

\* C13 as stated: a wrong password is answered by the endpoint with the
\* message "Failed to decrypt PDF. Check password."
C13_DecryptMessageSurfaced ==
    (cdPhase = "returned" /\ PdfReachedService(cdJob)
        /\ WrongPassword(cdJob.files[1].pdf, cdJob.Password)) =>
        /\ cdOut.status = StatusBadRequest
        /\ cdOut.Message = MsgDecryptCheckPassword

\* C13: with a supplied password, a wrong password makes ExtractText and
\* ExtractImages return a decryption error, which the endpoint answers with
\* status 400 and the error's text (it names the decryption), and every
\* other failure with status 500 and a text that names no decryption; a PDF
\* that is not encrypted is no error and is processed as it is; with no
\* password no decryption is attempted.
C13_DecryptionDistinguishable ==
    (cdPhase = "returned" /\ PdfReachedService(cdJob)) =>
        LET pdf == cdJob.files[1].pdf
            pw == cdJob.Password
        IN  /\ WrongPassword(pdf, pw) =>
                  /\ ExtractText(pdf, pw).err
                  /\ Contains(ExtractText(pdf, pw).errText, WordDecrypt)
                  /\ ExtractImages(pdf, pw).err
                  /\ Contains(ExtractImages(pdf, pw).errText, WordDecrypt)
                  /\ cdOut.status = StatusBadRequest
                  /\ Contains(cdOut.Message, WordDecrypt)
            /\ ~WrongPassword(pdf, pw) =>
                  \/ cdOut.status = StatusOK
                  \/ /\ cdOut.status = StatusInternalServerError
                     /\ ~Contains(cdOut.Message, WordDecrypt)
            /\ (pw # "" /\ ~pdf.encrypted) =>
                  /\ ~decryptPDFBytes(pdf, pw).err
                  /\ ExtractText(pdf, pw) =
                        [text |-> pdf.textLayer, err |-> FALSE, decrypt |-> FALSE,
                         errText |-> <<>>]
                  /\ Len(pdf.pages) > 0 =>
                        /\ ~ExtractImages(pdf, pw).err
                        /\ ExtractImages(pdf, pw).images = pdf.pages
            /\ pw = "" =>
                  /\ ~decryptPDFBytes(pdf, pw).attempted
                  /\ ~decryptPDFBytes(pdf, pw).err

\* a protected PDF with the wrong password, answered with status 400
C13_Witness ==
    /\ cdPhase = "returned"
    /\ PdfReachedService(cdJob)
    /\ WrongPassword(cdJob.files[1].pdf, cdJob.Password)
    /\ Len(cdJob.files[1].pdf.pages) = 1
    /\ cdOut.status = StatusBadRequest
    /\ cdOut.Message
         = ErrExtractImages \o ErrDecryptForImages \o ErrFailedToDecrypt
             \o ErrPdfcpuWrongPassword

PrimaryEngineFns == {"paddleClient.ExtractText", "paddleClient.ExtractTextFromFile"}

SecondaryEngineFns ==
    {"tesseractClient.ExtractTextAndQuality",
     "tesseractClient.ExtractTextAndQualityFromFile"}

\* the image an engine was called on: upload or page number at of the job
ImageOfCall(job, at) ==
    IF job.op = "ExtractFromImages" THEN DecodedImages(job.imagesData)[at]
    ELSE IF job.op = "ExtractAadhaar"
    THEN IF Len(job.files) > 1
         THEN DecodedImages([i \in 1..Len(job.files) |-> job.files[i].image])[at]
         ELSE ImageAt(job.files[1], at)
    ELSE ImageAt(job, at)

\* call k ran the primary engine on an image and the engine returned an error
PrimaryFailedAt(k) ==
    /\ cdCalls[k].fn \in PrimaryEngineFns
    /\ ImageOfCall(cdJob, cdCalls[k].arg).paddle.err

\* C14: in every OCR path, after the primary engine returned an error for an
\* image, the secondary engine is run on that same image before the
\* operation returns, on the image itself or on the upload that holds it
\* (unless the image could not be written to the temporary file the
\* secondary engine reads).
C14_SecondaryEngineOnSameImage ==
    (cdPhase = "returned" /\ "saveAadhaarImageToTempFile" \notin CalledFns) =>
        \A k \in 1..Len(cdCalls) :
            PrimaryFailedAt(k) =>
                \E m \in (k + 1)..Len(cdCalls) :
                    /\ cdCalls[m].fn \in SecondaryEngineFns
                    /\ cdCalls[m].arg \in {cdCalls[k].arg, 0}

\* the request went to a service whose PaddleOCR client is nil
ClientIsNil(job) ==
    job.op \in {"ProcessDocument", "extractFromOCR"} /\ ~job.paddleAvailable

\* C15: with a nil PaddleOCR client a request is answered without a call of
\* the client's methods and without a nil dereference.
C15_NilClientNeverDereferenced ==
    (cdPhase = "returned" /\ ClientIsNil(cdJob)) =>
        /\ cdOut # NilDereference
        /\ CalledFns \cap PrimaryEngineFns = {}

RECURSIVE ConcatAll(_)
ConcatAll(texts) == IF texts = <<>> THEN <<>> ELSE Head(texts) \o ConcatAll(Tail(texts))

\* the texts of the pages that yielded text, in page order; yield[i] is
\* empty or holds the text of page i
YieldedTexts(yield) == ConcatAll(yield)

\* ProcessDocument: what the engines give for a page, if anything
PageYield(page) ==
    IF page.save # "ok" THEN <<>>
    ELSE IF ~page.paddle.err /\ Len(TrimSpace(page.paddle.text)) >= MinPageTextLen
    THEN <<page.paddle.text>>
    ELSE IF ~page.tess.err THEN <<page.tess.text>>
    ELSE <<>>

\* Aadhaar ExtractFromFile: what the engine gives for a page, if anything
IdPageYield(page) ==
    IF page.encode /\ ~page.paddle.err THEN <<page.paddle.text>> ELSE <<>>

CallsOf(fn) == {cdCalls[k].arg : k \in {j \in 1..Len(cdCalls) : cdCalls[j].fn = fn}}

\* ProcessDocument ran its page loop to the end
PageLoopRan ==
    /\ cdJob.op = "ProcessDocument"
    /\ cdJob.paddleAvailable
    /\ "saveImageToTempFile" \in CalledFns

\* Aadhaar ExtractFromFile ran OCR on the pages of a PDF
IdPageLoopRan ==
    /\ cdJob.op = "ExtractFromFile"
    /\ "utils.ParseAadhaarFromText" \in CalledFns
    /\ Contains(cdJob.mimeType, <<"p", "d", "f">>)

\* C16: when the pages of a document are given to OCR, every page is
\* visited and OCR is run on every page that could be handed to the engine;
\* the text that is parsed is the concatenation, in page order, of the text
\* of every page that yielded text, each with a line break (after the page
\* in ProcessDocument, before it in ExtractFromFile); a page that fails is
\* left out and the other pages are kept.
C16_EveryPageInOrder ==
    cdPhase = "returned" =>
        LET pages == cdJob.pdf.pages
        IN  /\ PageLoopRan =>
                  LET yield == [i \in 1..Len(pages) |-> PageYield(pages[i])]
                      texts == [i \in 1..Len(YieldedTexts(yield)) |->
                                   YieldedTexts(yield)[i] \o <<"\n">>]
                  IN  /\ CallsOf("saveImageToTempFile") = 1..Len(pages)
                      /\ CallsOf("paddleClient.ExtractTextFromFile")
                            = {i \in 1..Len(pages) : pages[i].save = "ok"}
                      /\ (~cdOut.err /\ texts # <<>>) =>
                            cdOut.parsedFrom = ConcatAll(texts)
            /\ IdPageLoopRan =>
                  LET yield == [i \in 1..Len(pages) |-> IdPageYield(pages[i])]
                      texts == [i \in 1..Len(YieldedTexts(yield)) |->
                                   <<"\n">> \o YieldedTexts(yield)[i]]
                  IN  /\ CallsOf("paddleClient.ExtractText")
                            = {i \in 1..Len(pages) : pages[i].encode}
                      /\ ~cdOut.err => cdOut.parsedFrom = ConcatAll(texts)

\* two pages with different texts, the first already usable: both are in
\* the parsed text, in page order
C16_Witness ==
    /\ cdPhase = "returned"
    /\ PageLoopRan
    /\ Len(cdJob.pdf.pages) = 2
    /\ PageYield(cdJob.pdf.pages[1]) = <<TextOf("p", MinPageTextLen)>>
    /\ PageYield(cdJob.pdf.pages[2]) = <<TextOf("s", 12)>>
    /\ ~cdOut.err
    /\ cdOut.parsedFrom = TextOf("p", MinPageTextLen) \o <<"\n">> \o TextOf("s", 12) \o <<"\n">>

\* a PDF of two pages where OCR fails on the first: the second page is kept
C16_WitnessSkippedPage ==
    /\ cdPhase = "returned"
    /\ IdPageLoopRan
    /\ Len(cdJob.pdf.pages) = 2
    /\ IdPageYield(cdJob.pdf.pages[1]) = <<>>
    /\ ~cdOut.err
    /\ cdOut.parsedFrom = <<"\n">> \o TextOf("q", 3)

\* the decoded uploads on which the code reader succeeds
QRReadable(images) == {i \in 1..Len(images) : ~extractFromQR(images[i]).err}

\* C17: ExtractFromImages runs the code reader on the decodable images in
\* upload order and returns the first card it reads without running OCR;
\* only when the reader fails on every image does it run OCR, over all the
\* images.
C17_QRFirstThenOCR ==
    (cdPhase = "returned" /\ cdJob.op = "ExtractFromImages") =>
        LET images == DecodedImages(cdJob.imagesData)
            readable == QRReadable(images)
        IN  Len(images) > 0 =>
              IF readable # {}
              THEN /\ cdOut = extractFromQR(images[Least(readable)])
                   /\ cdOut.Source = "qr"
                   /\ cdCalls = [i \in 1..Least(readable) |-> Call("extractFromQR", i)]
              ELSE /\ SubSeq(cdCalls, 1, Len(images))
                        = [i \in 1..Len(images) |-> Call("extractFromQR", i)]
                   /\ CallsOf("paddleClient.ExtractText")
                        = {i \in 1..Len(images) : images[i].encode}
                   /\ ~cdOut.err => cdOut.Source = "ocr"

\* two uploads that carry different cards: the first one is returned, the
\* second is not read and no OCR is run
C17_Witness ==
    /\ cdPhase = "returned"
    /\ cdJob.op = "ExtractFromImages"
    /\ Len(cdJob.imagesData) = 2
    /\ QRReadable(cdJob.imagesData) = {1, 2}
    /\ extractFromQR(cdJob.imagesData[1]) # extractFromQR(cdJob.imagesData[2])
    /\ cdOut = extractFromQR(cdJob.imagesData[1])
    /\ cdCalls = <<Call("extractFromQR", 1)>>

\* the code reader fails on both uploads: OCR is run on both
C17_WitnessOCR ==
    /\ cdPhase = "returned"
    /\ cdJob.op = "ExtractFromImages"
    /\ Len(DecodedImages(cdJob.imagesData)) = 2
    /\ QRReadable(cdJob.imagesData) = {}
    /\ CallsOf("paddleClient.ExtractText") = {1, 2}
    /\ ~cdOut.err
    /\ cdOut.Source = "ocr"

\* C18: without a bank statement CrossCheck returns, whatever the salary
\* slips are, a verdict whose notes state the absence, with NameMatch false,
\* AccountMatch false, NameSimilarity 0 and no missing credit.
C18_NoStatementVerdict ==
    (ccPhase = "done" /\ Len(ccStmts) = 0) =>
        /\ ccResult.Notes = <<"No bank statements provided for cross-check">>
        /\ ~ccResult.NameMatch
        /\ ~ccResult.AccountMatch
        /\ ccResult.NameSimilarity = 0
        /\ ccResult.MissingSalaryCredits = <<>>

\* two salary slips and no bank statement
C18_Witness ==
    /\ ccPhase = "done"
    /\ Len(ccStmts) = 0
    /\ Len(ccSlips) = 2
    /\ ccSlips[1] # ccSlips[2]
    /\ ccResult.Notes = <<"No bank statements provided for cross-check">>

\* the manifest entries whose file name matches no uploaded file
Missing == {i \in Tasks : ~documents[i].uploaded}

\* C19: a manifest entry without an uploaded file gets no task, no record
\* and no error, and does not make VerifyIncome fail: the other entries are
\* processed, and when none of them fails the response holds their records.
C19_MissingUploadSkipped ==
    /\ \A i \in Missing : taskPc[i] = "idle" /\ taskResult[i] = <<>>
    /\ \A k \in 1..Len(errors) : errors[k].doc \notin Missing
    /\ Len(salarySlips) + Len(bankStatements) + Len(errors)
          <= Cardinality(Tasks \ Missing)
    /\ (mainPc = "returned" /\ metadataOK) =>
          /\ \A i \in Tasks \ Missing : taskPc[i] = "exited"
          /\ (\A i \in Tasks \ Missing : ~taskResult[i].err) =>
                /\ ~response.err
                /\ Len(response.SalarySlips) + Len(response.BankStatements)
                      = Cardinality(Tasks \ Missing)

\* a manifest of a missing file and an uploaded salary slip: the response
\* holds the one slip
C19_Witness ==
    /\ mainPc = "returned"
    /\ metadataOK
    /\ Len(documents) = 2
    /\ Missing = {1}
    /\ ~response.err
    /\ taskPc = <<"idle", "exited">>
    /\ Len(response.SalarySlips) = 1
    /\ response.SalarySlips[1].EmployeeName = SlipA.EmployeeName
    /\ response.BankStatements = <<>>

(***************************************************************************)
(* utils.ParseSalarySlip: extractMonth and extractSalaryAmount.  The       *)
(* regular expressions are matched the way Go's regexp matches them: the   *)
(* leftmost match, and at one position the first alternative that lets the *)
(* rest of the expression match.  An amount is kept as the whole number    *)
(* before the decimal point and the digits after it without the trailing   *)
(* zeros.                                                                  *)
(***************************************************************************)

Months ==
    <<<<"J","a","n","u","a","r","y">>,
      <<"F","e","b","r","u","a","r","y">>,
      <<"M","a","r","c","h">>,
      <<"A","p","r","i","l">>,
      <<"M","a","y">>,
      <<"J","u","n","e">>,
      <<"J","u","l","y">>,
      <<"A","u","g","u","s","t">>,
      <<"S","e","p","t","e","m","b","e","r">>,
      <<"O","c","t","o","b","e","r">>,
      <<"N","o","v","e","m","b","e","r">>,
      <<"D","e","c","e","m","b","e","r">>,
      <<"J","a","n">>,
      <<"F","e","b">>,
      <<"M","a","r">>,
      <<"A","p","r">>,
      <<"M","a","y">>,
      <<"J","u","n">>,
      <<"J","u","l">>,
      <<"A","u","g">>,
      <<"S","e","p">>,
      <<"O","c","t">>,
      <<"N","o","v">>,
      <<"D","e","c">>>>

\* month[\s\-,]*(\d{4}) at position p: the year, if it matches there
YearAfter(text, p, month) ==
    IF ~MatchesAt(text, p, month) THEN <<>>
    ELSE LET q == SkipWhile(text, p + Len(month), RegexSpace \cup {"-", ","})
         IN  IF AllDigits(text, q, q + 3) THEN <<SubSeq(text, q, q + 3)>> ELSE <<>>

\* FindStringSubmatch of the year expression: the leftmost match
FindYear(text, month) ==
    LET at == {p \in 1..Len(text) : YearAfter(text, p, month) # <<>>}
    IN  IF at = {} THEN <<>> ELSE YearAfter(text, Least(at), month)

\* (\d{1,2})[/-](\d{4}) at position p
DateAt(text, p) ==
    IF AllDigits(text, p, p + 1) /\ p + 2 <= Len(text) /\ text[p + 2] \in {"/", "-"}
          /\ AllDigits(text, p + 3, p + 6)
    THEN <<SubSeq(text, p, p + 1) \o <<"/">> \o SubSeq(text, p + 3, p + 6)>>
    ELSE IF AllDigits(text, p, p) /\ p + 1 <= Len(text) /\ text[p + 1] \in {"/", "-"}
          /\ AllDigits(text, p + 2, p + 5)
    THEN <<SubSeq(text, p, p) \o <<"/">> \o SubSeq(text, p + 2, p + 5)>>
    ELSE <<>>

Unknown == <<"U", "n", "k", "n", "o", "w", "n">>

\* the loop over the month names, from name k on
RECURSIVE MonthFrom(_, _)
MonthFrom(text, k) ==
    IF k > Len(Months) THEN <<>>
    ELSE IF Contains(ToLower(text), ToLower(Months[k]))
    THEN LET year == FindYear(text, Months[k])
         IN  IF year # <<>> THEN <<Months[k] \o <<" ">> \o year[1]>> ELSE <<Months[k]>>
    ELSE MonthFrom(text, k + 1)

extractMonth(text) ==
    LET named == MonthFrom(text, 1)
        at == {p \in 1..Len(text) : DateAt(text, p) # <<>>}
    IN  IF named # <<>> THEN named[1]
        ELSE IF at # {} THEN DateAt(text, Least(at))[1]
        ELSE Unknown

\* the currency marks of the expressions, in the order they are tried; the
\* last one is no mark at all
CurrencyMarks == <<<<"R", "s", ".">>, <<"R", "s">>, <<"I", "N", "R">>, <<"₹">>, <<>>>>

\* ([0-9,]+\.?\d*) at position p: the position that follows the match
AmountEnd(text, p) ==
    LET r1 == SkipWhile(text, p, Digits \cup {","})
    IN  IF r1 <= Len(text) /\ text[r1] = "." THEN SkipWhile(text, r1 + 1, Digits) ELSE r1

\* (?:Rs\.?|INR|₹)?\s*([0-9,]+\.?\d*) at position p, from mark k on
RECURSIVE AmountAfterMark(_, _, _)
AmountAfterMark(text, p, k) ==
    IF k > Len(CurrencyMarks) THEN <<>>
    ELSE
      LET q == SkipWhile(text, p + Len(CurrencyMarks[k]), RegexSpace)
      IN  IF MatchesAt(text, p, CurrencyMarks[k]) /\ q <= Len(text)
                /\ text[q] \in Digits \cup {","}
          THEN <<SubSeq(text, q, AmountEnd(text, q) - 1)>>
          ELSE AmountAfterMark(text, p, k + 1)

\* [\s:]*(?:Rs\.?|INR|₹)?\s*([0-9,]+\.?\d*) at position p
AmountAfterLabel(text, p) ==
    AmountAfterMark(text, SkipWhile(text, p, RegexSpace \cup {":"}), 1)

\* head\s*(?:alt1|alt2|...) and the amount at position p, from alternative k on
RECURSIVE LabelledAmountAt(_, _, _, _)
LabelledAmountAt(text, p, pattern, k) ==
    IF ~MatchesAt(text, p, pattern.head) \/ k > Len(pattern.alts) THEN <<>>
    ELSE
      LET q == SkipWhile(text, p + Len(pattern.head), RegexSpace)
          found == IF MatchesAt(text, q, pattern.alts[k])
                   THEN AmountAfterLabel(text, q + Len(pattern.alts[k]))
                   ELSE <<>>
      IN  IF found # <<>> THEN found ELSE LabelledAmountAt(text, p, pattern, k + 1)

\* FindStringSubmatch of one expression: the leftmost match
FindLabelledAmount(text, pattern) ==
    LET at == {p \in 1..Len(text) : LabelledAmountAt(text, p, pattern, 1) # <<>>}
    IN  IF at = {} THEN <<>> ELSE LabelledAmountAt(text, Least(at), pattern, 1)

WordPay == <<"p", "a", "y">>
WordSalary == <<"s", "a", "l", "a", "r", "y">>
WordAmount == <<"a", "m", "o", "u", "n", "t">>
WordPayment == <<"p", "a", "y", "m", "e", "n", "t">>

\* the four expressions of extractSalaryAmount
SalaryPatterns ==
    <<[head |-> <<"n", "e", "t">>,
       alts |-> <<WordPay, WordSalary, WordAmount, WordPayment>>],
      [head |-> <<"t", "o", "t", "a", "l">>, alts |-> <<WordPay, WordSalary, WordAmount>>],
      [head |-> WordSalary, alts |-> <<<<>>>>],
      [head |-> <<"g", "r", "o", "s", "s">>, alts |-> <<WordPay, WordSalary>>]>>

RECURSIVE DecimalValue(_)
DecimalValue(digits) ==
    IF digits = <<>> THEN 0
    ELSE 10 * DecimalValue(SubSeq(digits, 1, Len(digits) - 1))
           + (CHOOSE d \in 0..9 : ToString(d) = digits[Len(digits)])

RECURSIVE DropTrailingZeros(_)
DropTrailingZeros(digits) ==
    IF digits # <<>> /\ digits[Len(digits)] = "0"
    THEN DropTrailingZeros(SubSeq(digits, 1, Len(digits) - 1))
    ELSE digits

Amount(units, frac) == [units |-> units, frac |-> frac]

\* strconv.ParseFloat on digits with at most one decimal point, after the
\* commas are removed
ParseFloat(amountStr) ==
    LET point == SkipWhile(amountStr, 1, Digits)
        whole == SubSeq(amountStr, 1, point - 1)
        frac == SubSeq(amountStr, point + 1, Len(amountStr))
    IN  IF whole = <<>> /\ frac = <<>> THEN [err |-> TRUE, value |-> Amount(0, <<>>)]
        ELSE [err |-> FALSE,
              value |-> Amount(DecimalValue(whole), DropTrailingZeros(frac))]

\* the loop over the expressions, from expression k on
RECURSIVE SalaryAmountFrom(_, _)
SalaryAmountFrom(text, k) ==
    IF k > Len(SalaryPatterns) THEN Amount(0, <<>>)
    ELSE
      LET matches == FindLabelledAmount(text, SalaryPatterns[k])
          amount == IF matches = <<>> THEN [err |-> TRUE, value |-> Amount(0, <<>>)]
                    ELSE ParseFloat(RemoveChar(matches[1], ","))
      IN  IF ~amount.err THEN amount.value ELSE SalaryAmountFrom(text, k + 1)

extractSalaryAmount(text) == SalaryAmountFrom(text, 1)


WordName == <<"n","a","m","e">>

\* the match of (?i)name\s*:\s*([A-Za-z ]+) that starts at p: <<capture>>,
\* or <<>> when there is none.  When no letter follows the white space
\* after the colon the expression gives back white space to the group, whose
\* capture is then made of spaces only.
NameLabelAt(line, p) ==
    LET c == SkipWhile(line, p + Len(WordName), RegexSpace)
    IN  IF ~MatchesAt(line, p, WordName) \/ c > Len(line) \/ line[c] # ":" THEN <<>>
        ELSE LET q == SkipWhile(line, c + 1, RegexSpace)
                 r == SkipWhile(line, q, Letters \cup {" "})
             IN  IF r > q THEN <<SubSeq(line, q, r - 1)>>
                 ELSE IF \E k \in (c + 1)..(q - 1) : line[k] = " " THEN << <<" ">> >>
                 ELSE <<>>

extractNameAfterLabel(line) ==
    LET ps == {p \in 1..Len(line) : NameLabelAt(line, p) # <<>>}
    IN  IF ps = {} THEN <<>> ELSE TrimSpace(NameLabelAt(line, Least(ps))[1])

NameStopWords ==
    {<<"o","p","e","n","i","n","g">>, <<"s","t","a","t","e">>, <<"b","r","a","n","c","h">>, <<"b","a","n","k">>, <<"a","c","c">>, <<"a","c","c","o","u","n","t">>, <<"s","a","l","a","r","y">>}

\* the loop of cleanName: the words up to the first stop word, two at most
RECURSIVE CleanParts(_, _)
CleanParts(parts, out) ==
    IF parts = <<>> \/ ToLower(Head(parts)) \in NameStopWords THEN out
    ELSE LET o == Append(out, Head(parts))
         IN  IF Len(o) = 2 THEN o ELSE CleanParts(Tail(parts), o)

cleanName(s) ==
    IF s = <<>> THEN s ELSE Join(CleanParts(Fields(s), <<>>), <<" ">>)

isCleanName(s) ==
    /\ s # <<>>
    /\ LET parts == Fields(s)
       IN  /\ Len(parts) = 2
           /\ \A i \in 1..2 : \A k \in 1..Len(parts[i]) : parts[i][k] \in Letters

\* the first line that holds "name" and a colon and yields a clean name
\* decides: the line above it is tried before the value after the label
extractEmployeeName(text) ==
    LET lines == Split(text, "\n")
        IsLabel(i) == Contains(ToLower(lines[i]), WordName) /\ Contains(lines[i], <<":">>)
        Above(i) == cleanName(TrimSpace(lines[i - 1]))
        After(i) == cleanName(extractNameAfterLabel(lines[i]))
        FromAbove(i) == i > 1 /\ isCleanName(Above(i))
        hits == {i \in 1..Len(lines) :
                    IsLabel(i) /\ (FromAbove(i) \/ isCleanName(After(i)))}
    IN  IF hits = {} THEN <<>>
        ELSE LET i == Least(hits) IN IF FromAbove(i) THEN Above(i) ELSE After(i)

\* the pay month, the net salary and the employee name of the record (the
\* other fields of the record come from extractors of their own)
ParseSalarySlip(ocrText) ==
    [PayMonth |-> extractMonth(ocrText), NetSalary |-> extractSalaryAmount(ocrText),
     EmployeeName |-> extractEmployeeName(ocrText)]

(***************************************************************************)
(* ParseBankStatement: the transactions of a statement.                    *)
(***************************************************************************)
\* strings.ToUpper on one (ASCII) character
ToUpperChar(c) ==
    IF \E i \in 1..Len(LowerLetters) : LowerLetters[i] = c
    THEN UpperLetters[CHOOSE i \in 1..Len(LowerLetters) : LowerLetters[i] = c]
    ELSE c

\* strings.ToUpper
ToUpper(s) == [i \in 1..Len(s) |-> ToUpperChar(s[i])]

\* strings.TrimSuffix
TrimSuffix(s, suf) == IF HasSuffix(s, suf) THEN SubSeq(s, 1, Len(s) - Len(suf)) ELSE s

\* normalizeLines: the trimmed lines of the text that are not empty
normalizeLines(text) ==
    LET raw == Split(RemoveChar(text, "\r"), "\n")
        trimmed == [i \in 1..Len(raw) |-> TrimSpace(raw[i])]
    IN  SelectSeq(trimmed, LAMBDA l : l # <<>>)

DateSeparators == {"/", "-"}

\* the length of the match of \d{1,2}[/-]\d{1,2}[/-]\d{2,4} that starts at
\* p, 0 when there is none
DateLen(line, p) ==
    LET Sep(k) == k <= Len(line) /\ line[k] \in DateSeparators
        Fits(n1, n2) ==
            /\ AllDigits(line, p, p + n1 - 1)
            /\ Sep(p + n1)
            /\ AllDigits(line, p + n1 + 1, p + n1 + n2)
            /\ Sep(p + n1 + n2 + 1)
            /\ AllDigits(line, p + n1 + n2 + 2, p + n1 + n2 + 3)
        fits == {c \in (1..2) \X (1..2) : Fits(c[1], c[2])}
    IN  IF fits = {} THEN 0
        ELSE LET c == CHOOSE x \in fits : TRUE
                 year == p + c[1] + c[2] + 2
                 digitsEnd == SkipWhile(line, year, Digits)
             IN  (IF digitsEnd > year + 4 THEN year + 4 ELSE digitsEnd) - p

\* a float64 that came from a decimal numeral
SignedAmount(neg, units, frac) == [neg |-> neg, units |-> units, frac |-> frac]

ZeroAmount == SignedAmount(FALSE, 0, <<>>)

IsZeroAmount(a) == a.units = 0 /\ a.frac = <<>>

\* strconv.ParseFloat on a token: an optional sign and a decimal numeral with
\* at most one point; any other token of the texts is an error
ParseSignedFloat(s) ==
    LET signed == s # <<>> /\ s[1] \in {"+", "-"}
        body == IF signed THEN Tail(s) ELSE s
        point == SkipWhile(body, 1, Digits)
        whole == SubSeq(body, 1, point - 1)
        frac == SubSeq(body, point + 1, Len(body))
        wellFormed ==
            /\ whole # <<>> \/ frac # <<>>
            /\ point > Len(body) \/ body[point] = "."
            /\ \A k \in 1..Len(frac) : frac[k] \in Digits
    IN  IF wellFormed
        THEN [err |-> FALSE,
              value |-> SignedAmount(signed /\ s[1] = "-", DecimalValue(whole),
                                     DropTrailingZeros(frac))]
        ELSE [err |-> TRUE, value |-> ZeroAmount]

\* mustParseAmount: the error of ParseFloat is dropped, its value is 0 then
mustParseAmount(s) ==
    LET upper == ToUpper(RemoveChar(s, ","))
        bare == TrimSuffix(TrimSuffix(upper, <<"C","R">>), <<"D","R">>)
    IN  ParseSignedFloat(TrimSpace(bare)).value

\* time.Time{}
ZeroTime == [day |-> 1, month |-> 1, year |-> 1]

IsLeap(year) == year % 4 = 0 /\ (year % 100 # 0 \/ year % 400 = 0)

DaysIn(month, year) ==
    IF month = 2 THEN (IF IsLeap(year) THEN 29 ELSE 28)
    ELSE IF month \in {4, 6, 9, 11} THEN 30 ELSE 31

\* the layouts of time.Parse the parsers use: day, month and year in some
\* order, two digits for day and month, yearDigits for the year
Layout(sep, yearDigits, yearFirst) ==
    [sep |-> sep, yearDigits |-> yearDigits, yearFirst |-> yearFirst]

\* time.Parse(layout, s): every element has its fixed number of digits,
\* nothing may follow, month and day must exist; a two-digit year from 69
\* on lies in the 1900s
TimeParse(layout, s) ==
    LET yd == layout.yearDigits
        first == IF layout.yearFirst THEN yd ELSE 2
        last == IF layout.yearFirst THEN 2 ELSE yd
        shaped ==
            /\ Len(s) = yd + 6
            /\ AllDigits(s, 1, first)
            /\ s[first + 1] = layout.sep
            /\ AllDigits(s, first + 2, first + 3)
            /\ s[first + 4] = layout.sep
            /\ AllDigits(s, first + 5, first + 4 + last)
        yearStr == IF layout.yearFirst THEN SubSeq(s, 1, yd)
                   ELSE SubSeq(s, 7, 6 + yd)
        dayStr == IF layout.yearFirst THEN SubSeq(s, yd + 5, yd + 6) ELSE SubSeq(s, 1, 2)
        written == DecimalValue(yearStr)
        year == IF yd = 4 THEN written
                ELSE IF written >= 69 THEN 1900 + written ELSE 2000 + written
        month == DecimalValue(SubSeq(s, first + 2, first + 3))
        day == DecimalValue(dayStr)
    IN  IF shaped /\ month \in 1..12 /\ day \in 1..DaysIn(month, year)
        THEN [err |-> FALSE, t |-> [day |-> day, month |-> month, year |-> year]]
        ELSE [err |-> TRUE, t |-> ZeroTime]

\* the first layout of the list, from k on, that parses s
RECURSIVE ParseWithLayouts(_, _, _)
ParseWithLayouts(layouts, s, k) ==
    IF k > Len(layouts) THEN [err |-> TRUE, t |-> ZeroTime]
    ELSE IF ~TimeParse(layouts[k], s).err THEN TimeParse(layouts[k], s)
    ELSE ParseWithLayouts(layouts, s, k + 1)

\* "02/01/2006", "02/01/06", "02-01-2006", "02-01-06"
SmartLayouts ==
    <<Layout("/", 4, FALSE), Layout("/", 2, FALSE),
      Layout("-", 4, FALSE), Layout("-", 2, FALSE)>>

parseDateSmart(s) == ParseWithLayouts(SmartLayouts, s, 1)

\* dto.BankTransaction as the parsers fill it: RawLine is never set
BankTransaction(date, amount, desc, isCredit) ==
    [Date |-> date, Amount |-> amount, Description |-> desc, IsCredit |-> isCredit,
     RawLine |-> <<>>]

\* one pass of the loop of parseTabularTransactions: the transaction of the
\* line, if it gives one
TabularRow(line) ==
    LET parts == Fields(line)
        amountStr == parts[Len(parts)]
        amount == mustParseAmount(amountStr)
        desc == Join(SubSeq(parts, 2, Len(parts) - 1), <<" ">>)
        up == ToUpper(desc \o <<" ">> \o amountStr)
        isCredit == \/ Contains(up, <<"C","R">>)
                    \/ Contains(up, <<"C","R","E","D","I","T">>)
                    \/ Contains(up, <<"N","E","F","T">>)
                    \/ Contains(up, <<"U","P","I">>)
                    \/ Contains(up, <<"S","A","L","A","R","Y">>)
    IN  IF DateLen(line, SkipWhile(line, 1, RegexSpace)) = 0 THEN <<>>
        ELSE IF Len(parts) < 3 THEN <<>>
        ELSE IF IsZeroAmount(amount) THEN <<>>
        ELSE <<BankTransaction(parseDateSmart(parts[1]).t, amount, desc, isCredit)>>

\* the transactions of the lines, in the order of the lines
RECURSIVE parseTabularTransactions(_)
parseTabularTransactions(lines) ==
    IF lines = <<>> THEN <<>>
    ELSE TabularRow(Head(lines)) \o parseTabularTransactions(Tail(lines))

\* the end of the match of [0-9,]+\.\d{2} that starts at p, 0 when there is
\* none
LooseAmountEnd(line, p) ==
    LET r == SkipWhile(line, p, Digits \cup {","})
    IN  IF r > p /\ r <= Len(line) /\ line[r] = "." /\ AllDigits(line, r + 1, r + 2)
        THEN r + 3 ELSE 0

\* FindAllString of [0-9,]+\.\d{2} from position p on
RECURSIVE LooseAmounts(_, _)
LooseAmounts(line, p) ==
    LET at == {q \in p..Len(line) : LooseAmountEnd(line, q) # 0}
    IN  IF at = {} THEN <<>>
        ELSE LET q == Least(at)
             IN  <<SubSeq(line, q, LooseAmountEnd(line, q) - 1)>>
                   \o LooseAmounts(line, LooseAmountEnd(line, q))

\* strings.Replace(s, old, "", 1)
RemoveFirst(s, old) ==
    LET at == {i \in 1..(Len(s) - Len(old) + 1) : SubSeq(s, i, i + Len(old) - 1) = old}
    IN  IF at = {} THEN s
        ELSE SubSeq(s, 1, Least(at) - 1) \o SubSeq(s, Least(at) + Len(old), Len(s))

\* one pass of the loop of parseLooseTransactions
LooseRow(line) ==
    LET dates == {p \in 1..Len(line) : DateLen(line, p) # 0}
        d == SubSeq(line, Least(dates), Least(dates) + DateLen(line, Least(dates)) - 1)
        amounts == LooseAmounts(line, 1)
        last == amounts[Len(amounts)]
        amount == mustParseAmount(last)
        desc == TrimSpace(RemoveFirst(line, last))
        up == ToUpper(desc)
        isCredit == \/ Contains(up, <<"C","R">>)
                    \/ Contains(up, <<"C","R","E","D","I","T">>)
                    \/ Contains(up, <<"S","A","L">>)
                    \/ Contains(up, <<"N","E","F","T">>)
    IN  IF dates = {} THEN <<>>
        ELSE IF amounts = <<>> THEN <<>>
        ELSE IF IsZeroAmount(amount) THEN <<>>
        ELSE <<BankTransaction(parseDateSmart(d).t, amount, desc, isCredit)>>

RECURSIVE parseLooseTransactions(_)
parseLooseTransactions(lines) ==
    IF lines = <<>> THEN <<>>
    ELSE LooseRow(Head(lines)) \o parseLooseTransactions(Tail(lines))

parseBankTransactions(lines) ==
    IF Len(parseTabularTransactions(lines)) > 0 THEN parseTabularTransactions(lines)
    ELSE parseLooseTransactions(lines)

\* the transactions of the record (the account number and the holder's name
\* come from extractors of their own)
ParseBankStatement(text) ==
    [Transactions |-> parseBankTransactions(normalizeLines(text))]

(***************************************************************************)
(* The other copy of the parser in ocr_parser.go: ParseBankStatement with  *)
(* extractSalaryCredits.                                                   *)
(***************************************************************************)
\* "02/01/2006", "02-01-2006", "2006-01-02"
CreditLayouts ==
    <<Layout("/", 4, FALSE), Layout("-", 4, FALSE), Layout("-", 4, TRUE)>>

parseDate(dateStr) == ParseWithLayouts(CreditLayouts, dateStr, 1)

\* F applied to the value v, with v computed once
With(v, F(_)) == CHOOSE r \in {F(x) : x \in {v}} : TRUE

\* a literal of an expression without (?i) at position p
ExactAt(text, p, word) ==
    p >= 1 /\ p + Len(word) - 1 <= Len(text) /\ SubSeq(text, p, p + Len(word) - 1) = word

\* the character class \w
WordChars == Letters \cup Digits \cup {"_"}

CreditKeywords == <<<<"S","A","L","A","R","Y">>, <<"S","A","L">>, <<"C","R","E","D","I","T">>>>

\* \s+([0-9,]+\.?\d*) at position q: the position where the amount starts,
\* 0 when there is no match
SpacedAmountAt(text, q) ==
    LET r == SkipWhile(text, q, RegexSpace)
    IN  IF r > q /\ r <= Len(text) /\ text[r] \in Digits \cup {","} THEN r ELSE 0

\* [\w\s]*\s+([0-9,]+\.?\d*) at position k: the longest run of [\w\s]* after
\* which the rest matches; the position where that run ends, 0 when there is
\* no match
DescriptionEnd(text, k) ==
    LET ends == {w \in k..SkipWhile(text, k, WordChars \cup RegexSpace) :
                    SpacedAmountAt(text, w) # 0}
    IN  IF ends = {} THEN 0 ELSE CHOOSE w \in ends : \A x \in ends : x <= w

\* (?:SALARY|SAL|CREDIT)[\w\s]*\s+([0-9,]+\.?\d*) at position a, from
\* alternative k on
RECURSIVE KeywordAt(_, _, _)
KeywordAt(text, a, k) ==
    IF k > Len(CreditKeywords) THEN 0
    ELSE IF ExactAt(text, a, CreditKeywords[k])
              /\ DescriptionEnd(text, a + Len(CreditKeywords[k])) # 0
    THEN DescriptionEnd(text, a + Len(CreditKeywords[k]))
    ELSE KeywordAt(text, a, k + 1)

\* ([A-Z\s]+(?:SALARY|SAL|CREDIT)[\w\s]*)\s+([0-9,]+\.?\d*) at position s:
\* the longest run of [A-Z\s]+ after which the rest matches; the position
\* where the group ends, 0 when there is no match
CreditGroupEnd(text, s) ==
    LET upperSet == {UpperLetters[i] : i \in 1..Len(UpperLetters)}
        starts == {a \in (s + 1)..SkipWhile(text, s, upperSet \cup RegexSpace) :
                      KeywordAt(text, a, 1) # 0}
    IN  IF starts = {} THEN 0
        ELSE KeywordAt(text, CHOOSE a \in starts : \A x \in starts : x <= a, 1)

\* the match of the first expression of extractSalaryCredits that starts at
\* p: <<match>>, or <<>> when there is none
CreditMatchAt(text, p) ==
    LET dateEnd == p + DateLen(text, p)
        groups == {s \in (dateEnd + 1)..SkipWhile(text, dateEnd, RegexSpace) :
                      CreditGroupEnd(text, s) # 0}
    IN  IF DateLen(text, p) = 0 \/ groups = {} THEN <<>>
        ELSE LET s == CHOOSE x \in groups : \A y \in groups : y <= x
                 g == CreditGroupEnd(text, s)
                 amountAt == SpacedAmountAt(text, g)
             IN  <<[date |-> SubSeq(text, p, dateEnd - 1),
                    desc |-> SubSeq(text, s, g - 1),
                    amount |-> SubSeq(text, amountAt, AmountEnd(text, amountAt) - 1),
                    end |-> AmountEnd(text, amountAt)]>>

\* FindAllStringSubmatch of the first expression from position p on, and the
\* transactions of its matches
RECURSIVE DatedCredits(_, _)
DatedCredits(text, p) ==
    With({q \in p..Len(text) : CreditMatchAt(text, q) # <<>>}, LAMBDA at :
        IF at = {} THEN <<>>
        ELSE With(CreditMatchAt(text, Least(at))[1], LAMBDA m :
                With(ParseSignedFloat(RemoveChar(m.amount, ",")), LAMBDA amount :
                    (IF amount.err THEN <<>>
                     ELSE <<BankTransaction(parseDate(m.date).t, amount.value,
                                            TrimSpace(m.desc), TRUE)>>)
                      \o DatedCredits(text, m.end))))

\* the match of (?i)(salary|sal)\s+(?:credit|cr)\s+([0-9,]+\.?\d*) that
\* starts at p: <<amount, end>>, or <<>> when there is none
PlainCreditAt(text, p) ==
    LET Rest(q) ==
            LET c == SkipWhile(text, q, RegexSpace)
                k == IF MatchesAt(text, c, <<"c","r","e","d","i","t">>)
                          /\ SpacedAmountAt(text, c + 6) # 0 THEN c + 6
                     ELSE IF MatchesAt(text, c, <<"c","r">>) THEN c + 2 ELSE 0
            IN  IF c > q /\ k # 0 THEN SpacedAmountAt(text, k) ELSE 0
        amountAt == IF MatchesAt(text, p, WordSalary) /\ Rest(p + 6) # 0 THEN Rest(p + 6)
                    ELSE IF MatchesAt(text, p, <<"s","a","l">>) THEN Rest(p + 3) ELSE 0
    IN  IF amountAt = 0 THEN <<>>
        ELSE <<[amount |-> SubSeq(text, amountAt, AmountEnd(text, amountAt) - 1),
                end |-> AmountEnd(text, amountAt)]>>

SalaryCreditText == <<"S","a","l","a","r","y"," ","C","r","e","d","i","t">>

RECURSIVE PlainCredits(_, _)
PlainCredits(text, p) ==
    LET at == {q \in p..Len(text) : PlainCreditAt(text, q) # <<>>}
    IN  IF at = {} THEN <<>>
        ELSE LET m == PlainCreditAt(text, Least(at))[1]
                 amount == ParseSignedFloat(RemoveChar(m.amount, ","))
             IN  (IF amount.err THEN <<>>
                  ELSE <<BankTransaction(ZeroTime, amount.value, SalaryCreditText, TRUE)>>)
                   \o PlainCredits(text, m.end)

extractSalaryCredits(text) ==
    With(DatedCredits(text, 1), LAMBDA transactions :
        IF Len(transactions) = 0 THEN PlainCredits(text, 1) ELSE transactions)

\* the transactions of the record of the other copy of ParseBankStatement
ParseBankStatementCredits(ocrText) ==
    [Transactions |-> extractSalaryCredits(ocrText)]

(***************************************************************************)
(* ParseITR: the filing date.                                              *)
(***************************************************************************)
splitAndTrimLines(text) ==
    LET raw == Split(text, "\n")
        trimmed == [i \in 1..Len(raw) |-> TrimSpace(raw[i])]
    IN  SelectSeq(trimmed, LAMBDA l : l # <<>>)

\* (\d{2})[-/](\d{2})[-/](\d{4}) at position p
FilingDateAt(line, p) ==
    /\ AllDigits(line, p, p + 1)
    /\ p + 2 <= Len(line) /\ line[p + 2] \in DateSeparators
    /\ AllDigits(line, p + 3, p + 4)
    /\ p + 5 <= Len(line) /\ line[p + 5] \in DateSeparators
    /\ AllDigits(line, p + 6, p + 9)

HasFilingDate(line) == \E p \in 1..Len(line) : FilingDateAt(line, p)

\* t.Format("2006-01-02")
FormatDate(t) ==
    LET Pad(n, width) ==
            LET s == [i \in 1..width |->
                         ToString((n \div (10 ^ (width - i))) % 10)]
            IN  s
    IN  Pad(t.year, 4) \o <<"-">> \o Pad(t.month, 2) \o <<"-">> \o Pad(t.day, 2)

\* what extractITRFilingDate returns for a line with a date: the date in
\* the form 2006-01-02 when its day, month and year parse, else the date as
\* it is written in the line
FilingDateOf(line) ==
    LET p == Least({q \in 1..Len(line) : FilingDateAt(line, q)})
        raw == SubSeq(line, p, p + 9)
        d == SubSeq(line, p, p + 1)
        m == SubSeq(line, p + 3, p + 4)
        y == SubSeq(line, p + 6, p + 9)
        dashed == TimeParse(Layout("-", 4, FALSE), d \o <<"-">> \o m \o <<"-">> \o y)
        slashed == TimeParse(Layout("/", 4, FALSE), d \o <<"/">> \o m \o <<"/">> \o y)
    IN  IF ~dashed.err THEN FormatDate(dashed.t)
        ELSE IF ~slashed.err THEN FormatDate(slashed.t)
        ELSE raw

FilingWords ==
    {<<"e","l","e","c","t","r","o","n","i","c","a","l","l","y">>, <<"s","u","b","m","i","t","t","e","d">>, <<"o","n">>, <<"a","c","k","n","o","w","l","e","d","g","e","m","e","n","t">>}

extractITRFilingDate(lines) ==
    LET worded == {i \in 1..Len(lines) :
                      /\ \E w \in FilingWords : Contains(ToLower(lines[i]), w)
                      /\ HasFilingDate(lines[i])}
        dated == {i \in 1..Len(lines) : HasFilingDate(lines[i])}
    IN  IF worded # {} THEN FilingDateOf(lines[Least(worded)])
        ELSE IF dated # {} THEN FilingDateOf(lines[Least(dated)])
        ELSE <<>>

\* utils.ParseITR: the filing date of the record (the other fields of the record come from
\* extractors of their own)
ITRResult(ocrText) ==
    [FilingDate |-> extractITRFilingDate(splitAndTrimLines(ocrText))]

(***************************************************************************)
(* SpecParse: ParseSalarySlip applied to texts of a few lines.             *)
(***************************************************************************)
MaxLines == 3

LineNetSalary ==
    <<"N","e","t"," ","S","a","l","a","r","y",":"," ","R","s","."," ","5","0",",","0",
      "0","0",".","0","0">>

LinePaySlip ==
    <<"P","a","y"," ","S","l","i","p"," ","f","o","r"," ","O","c","t","o","b","e","r",
      " ","2","0","2","5">>

LineCompany ==
    <<"A","B","C"," ","C","o","r","p"," ","L","t","d",".">>

LineEmployee ==
    <<"E","m","p","l","o","y","e","e"," ","N","a","m","e",":"," ","J","o","h","n"," ",
      "D","o","e">>

LineAccount ==
    <<"A","c","c","o","u","n","t"," ","N","o",":"," ","1","2","3","4","5","6","7","8",
      "9","0">>

LineJoined ==
    <<"D","a","t","e"," ","o","f"," ","J","o","i","n","i","n","g",":"," ","1","2"," ",
      "M","a","r","c","h"," ","2","0","2","1">>

LineNetPay ==
    <<"N","e","t"," ","P","a","y",":"," ","2","0",",","0","0","0",".","5","0">>

LineDate ==
    <<"P","e","r","i","o","d"," ","1","0","/","2","0","2","5">>

TextLines ==
    {LineNetSalary, LinePaySlip, LineCompany, LineEmployee, LineAccount, LineJoined,
     LineNetPay, LineDate}

\* the text of the repository's test of ParseSalarySlip
TestSlipText ==
    Join(<<LineCompany, LineEmployee, LinePaySlip, LineAccount, LineNetSalary>>, <<"\n">>)

SlipTexts ==
    {Join(lines, <<"\n">>) : lines \in SeqsUpTo(TextLines, MaxLines)} \cup {TestSlipText}

\* the number of statement rows of a text
MaxRows == 2

LineBankName == <<"H","D","F","C"," ","B","a","n","k">>

LineColumns ==
    <<"D","a","t","e"," "," "," "," "," "," "," "," ","D","e","s","c","r","i","p",
          "t","i","o","n"," "," "," "," "," "," "," "," "," "," "," "," "," ","A","m",
          "o","u","n","t">>

RowSalary ==
    <<"1","5","/","1","0","/","2","0","2","5"," "," ","S","A","L","A","R","Y"," ",
          "C","R","E","D","I","T"," "," "," "," "," "," "," "," "," "," "," ","5","0",
          ",","0","0","0",".","0","0">>

RowUpi ==
    <<"2","0","/","1","0","/","2","0","2","5"," "," ","U","P","I"," ","P","A","Y",
          "M","E","N","T"," "," "," "," "," "," "," "," "," "," "," "," "," ","-","5",
          "0","0",".","0","0">>

\* a date of one-digit day and month, a date with a two-digit year, a day
\* that does not exist, a date inside the line
RowShortDate == <<"5","/","1","/","2","0","2","5"," ","N","E","F","T"," ","C","R","E","D","I",
          "T"," ","1",",","2","0","0",".","0","0">>

RowShortYear == <<"1","5","-","1","0","-","2","5"," ","S","A","L","A","R","Y"," ","C","R","E",
          "D","I","T"," ","4","0",",","0","0","0",".","0","0">>

RowNoSuchDay == <<"3","1","/","0","2","/","2","0","2","5"," ","S","A","L","A","R","Y"," ","C",
          "R","E","D","I","T"," ","3","0",",","0","0","0",".","0","0">>

RowInside == <<"T","x","n"," ","1","6","/","1","0","/","2","0","2","5"," ","S","A","L"," ",
          "C","R"," ","2","0",",","0","0","0",".","0","0">>

StatementLines ==
    {LineBankName, LineColumns, RowSalary, RowUpi, RowShortDate, RowShortYear,
     RowNoSuchDay, RowInside}

\* the text of the repository's test of ParseBankStatement
TestStatementText ==
    Join(<<LineBankName, <<"A","c","c","o","u","n","t"," ","H","o","l","d","e","r",":"," ","J","o","h",
          "n"," ","D","o","e">>,
           <<"A","c","c","o","u","n","t"," ","N","u","m","b","e","r",":"," ","1","2","3",
          "4","5","6","7","8","9","0">>, LineColumns, RowSalary, RowUpi>>,
         <<"\n">>)

StatementTexts ==
    {Join(lines, <<"\n">>) : lines \in SeqsUpTo(StatementLines, MaxRows)}
        \cup {TestStatementText}

LineFiled == <<"S","u","b","m","i","t","t","e","d"," ","e","l","e","c","t","r","o","n","i",
          "c","a","l","l","y"," ","o","n"," ","2","1","-","0","8","-","2","0","2","0">>

LineVerified == <<"V","e","r","i","f","i","e","d"," ","3","1","/","0","2","/","2","0","2","0">>

LineFiling == <<"D","a","t","e"," ","o","f"," ","f","i","l","i","n","g"," ","2","1","/","0",
          "8","/","2","0","2","0">>

LineNoDate == <<"A","c","k","n","o","w","l","e","d","g","e","m","e","n","t"," ","N","u","m",
          "b","e","r"," ","2","-","8","-","2","0","2","0">>

ItrLines == {LineFiled, LineVerified, LineFiling, LineNoDate}

ItrTexts == {Join(lines, <<"\n">>) : lines \in SeqsUpTo(ItrLines, MaxRows)}

ParseInit ==
    /\ psText \in SlipTexts \cup StatementTexts \cup ItrTexts
    /\ psPhase = "input"
    /\ psResult = <<>>
    /\ NamesIdle
    /\ CrossIdle
    /\ DocIdle
    /\ BatchIdle

CallParseSalarySlip ==
    /\ psPhase = "input"
    /\ psResult' = ParseSalarySlip(psText)
    /\ psPhase' = "done"
    /\ UNCHANGED psText
    /\ UNCHANGED <<nameVars, crossVars, docVars, batchVars>>

CallParseBankStatement ==
    /\ psPhase = "input"
    /\ psResult' = ParseBankStatement(psText)
    /\ psPhase' = "statement"
    /\ UNCHANGED psText
    /\ UNCHANGED <<nameVars, crossVars, docVars, batchVars>>

\* the other copy of ParseBankStatement
CallParseBankStatementCredits ==
    /\ psPhase = "input"
    /\ psResult' = ParseBankStatementCredits(psText)
    /\ psPhase' = "credits"
    /\ UNCHANGED psText
    /\ UNCHANGED <<nameVars, crossVars, docVars, batchVars>>

CallParseITR ==
    /\ psPhase = "input"
    /\ psResult' = ITRResult(psText)
    /\ psPhase' = "itr"
    /\ UNCHANGED psText
    /\ UNCHANGED <<nameVars, crossVars, docVars, batchVars>>

ParseNext ==
    \/ CallParseITR
    \/ CallParseSalarySlip
    \/ CallParseBankStatement
    \/ CallParseBankStatementCredits

SpecParse == ParseInit /\ [][ParseNext]_vars

October2025 ==
    <<"O","c","t","o","b","e","r"," ","2","0","2","5">>

\* the repository's test: on its text the pay month is "October 2025" and
\* the net salary 50000.00
TestParseSalarySlip ==
    (psPhase = "done" /\ psText = TestSlipText) =>
        /\ psResult.PayMonth = October2025
        /\ psResult.NetSalary = Amount(50000, <<>>)

\* C20: for any salary text that contains "Net Salary: Rs. 50,000.00" and
\* "Pay Slip for October 2025", ParseSalarySlip gives the net salary
\* 50000.00 and a pay month that contains "October 2025".
C20_NetSalaryAndPayMonth ==
    (psPhase = "done" /\ Contains(psText, LineNetSalary) /\ Contains(psText, LinePaySlip)) =>
        /\ psResult.NetSalary = Amount(50000, <<>>)
        /\ Contains(psResult.PayMonth, October2025)

\* the lines of a text
LinesOf(text) == Split(text, "\n")

HasLine(text, line) == \E i \in 1..Len(LinesOf(text)) : LinesOf(text)[i] = line

\* C21: for a salary text with the line "Employee Name: John Doe",
\* ParseSalarySlip gives the employee name "John Doe", the value after the
\* label, also when the line directly above the label is a company header.
C21_EmployeeNameAfterLabel ==
    (psPhase = "done" /\ HasLine(psText, LineEmployee)) =>
        psResult.EmployeeName = JohnDoe

\* the lines of a text that begin with a date, the rows of a statement
RowsOfText(text) ==
    SelectSeq(normalizeLines(text), LAMBDA l : DateLen(l, 1) # 0)

\* a statement whose rows are the salary credit and the UPI debit, once each
SalaryAndUpiRows(text) ==
    RowsOfText(text) \in {<<RowSalary, RowUpi>>, <<RowUpi, RowSalary>>}

\* C22: on a statement whose rows are one salary-credit row and one UPI
\* debit row ParseBankStatement records exactly one transaction, the salary
\* credit with amount 50000.00 and description "SALARY CREDIT"; the debit
\* row is not recorded.
C22_OnlySalaryCreditRecorded ==
    (psPhase \in {"statement", "credits"} /\ SalaryAndUpiRows(psText)) =>
        /\ Len(psResult.Transactions) = 1
        /\ psResult.Transactions[1].Amount = SignedAmount(FALSE, 50000, <<>>)
        /\ psResult.Transactions[1].Description = <<"S","A","L","A","R","Y"," ","C","R","E","D","I","T">>

\* no month name and no month/year date anywhere in the text
NoMonthCandidate(text) ==
    /\ \A k \in 1..Len(Months) : ~Contains(ToLower(text), ToLower(Months[k]))
    /\ \A p \in 1..Len(text) : DateAt(text, p) = <<>>

\* none of the words the salary expressions begin with
NoSalaryCandidate(text) ==
    \A k \in 1..Len(SalaryPatterns) : ~Contains(ToLower(text), SalaryPatterns[k].head)

\* no line with a name label
NoNameCandidate(text) == ~Contains(ToLower(text), WordName)

\* C23: a field for which the text holds no plausible candidate comes out
\* empty (the empty string, zero for an amount), never as a non-empty
\* placeholder: here the pay month, the net salary and the employee name of
\* ParseSalarySlip.
C23_MissIsEmptyValue ==
    psPhase = "done" =>
        /\ NoMonthCandidate(psText) => psResult.PayMonth = <<>>
        /\ NoSalaryCandidate(psText) => psResult.NetSalary = Amount(0, <<>>)
        /\ NoNameCandidate(psText) => psResult.EmployeeName = <<>>

\* the date of a statement row as it is written: the first field
DateStrOf(row) == Fields(row)[1]

\* the layouts of parseDateSmart that parse s
ParsingLayouts(s) == {k \in 1..Len(SmartLayouts) : ~TimeParse(SmartLayouts[k], s).err}

\* a text of one line that holds one written date
OneDateLine(text) ==
    /\ Len(splitAndTrimLines(text)) = 1
    /\ Cardinality({p \in 1..Len(text) : FilingDateAt(text, p)}) = 1

WrittenDate(text) ==
    LET p == CHOOSE q \in 1..Len(text) : FilingDateAt(text, q)
    IN  SubSeq(text, p, p + 9)

\* the day, month and year of a written date exist in the calendar
ExistingDate(d) ==
    LET month == DecimalValue(SubSeq(d, 4, 5))
    IN  /\ month \in 1..12
        /\ DecimalValue(SubSeq(d, 1, 2)) \in 1..DaysIn(month, DecimalValue(SubSeq(d, 7, 10)))

\* the date as it was written is in one of the text fields of the transaction
WrittenDateKept(tx, d) == Contains(tx.Description, d) \/ Contains(tx.RawLine, d)

\* C24: the date of a transaction row is the reading of the first accepted
\* format that parses it, and a date that parses under none of the formats
\* is kept in the record as it was written; the filing date of an ITR whose
\* written date does not parse is the written date.
C24_UnparsableDateRetained ==
    /\ (psPhase = "statement" /\ Len(RowsOfText(psText)) = 1
            /\ Len(psResult.Transactions) = 1) =>
          LET d == DateStrOf(RowsOfText(psText)[1])
          IN  IF ParsingLayouts(d) = {} THEN WrittenDateKept(psResult.Transactions[1], d)
              ELSE psResult.Transactions[1].Date
                     = TimeParse(SmartLayouts[Least(ParsingLayouts(d))], d).t
    /\ (psPhase = "itr" /\ OneDateLine(psText) /\ ~ExistingDate(WrittenDate(psText))) =>
          psResult.FilingDate = WrittenDate(psText)

\* the pages of the job whose code the reader can decode
DecodablePages(job) ==
    {i \in 1..Len(job.pdf.pages) :
        job.pdf.pages[i].bitmap /\ job.pdf.pages[i].qr.kind = "xml"}

\* the positions of the calls of the OCR engines in the trace
OcrCallsAt == {k \in 1..Len(cdCalls) : cdCalls[k].fn \in OcrEngineFns}

\* C25: ExtractFromFile on a PDF of several rasterized pages attempts the
\* code reader on each page before any OCR engine runs, so that a decodable
\* code on any page gives the record of that code (Source "qr").
C25_CodeDecoderOnEachPage ==
    (/\ cdPhase = "returned"
     /\ cdJob.op = "ExtractFromFile"
     /\ Contains(cdJob.mimeType, <<"p", "d", "f">>)
     /\ "extractFromQR" \in CalledFns
     /\ Len(cdJob.pdf.pages) > 1) =>
        /\ OcrCallsAt # {} =>
              \A i \in 1..Len(cdJob.pdf.pages) :
                  \E k \in 1..(Least(OcrCallsAt) - 1) : cdCalls[k] = Call("extractFromQR", i)
        /\ DecodablePages(cdJob) # {} => (~cdOut.err /\ cdOut.Source = "qr")

\* the visible characters of a text
VisibleChars(s) == {s[i] : i \in VisibleAt(s)}

\* the characters the engines read on the pages of the job's PDF
PageChars(job, engines) ==
    UNION {VisibleChars(job.pdf.pages[i][e].text) :
              i \in 1..Len(job.pdf.pages), e \in engines}

\* C26: the text handed to field extraction is wholly the text of one
\* channel: the text layer, or the pages' OCR texts of the fallback pass
\* (both engines of the page loop in ProcessDocument, PaddleOCR in
\* AnalyzeITR), or Tesseract's text of the document in AnalyzeITR; the text
\* of an earlier channel is never joined with a later channel's text.
C26_ReplaceNeverMerge ==
    (/\ cdPhase = "returned"
     /\ cdJob.op \in {"ProcessDocument", "AnalyzeITR"}
     /\ HasSuffix(ToLower(cdJob.Filename), DotPdf)
     /\ "parsedFrom" \in DOMAIN cdOut) =>
        \/ cdOut.parsedFrom = cdJob.pdf.textLayer
        \/ /\ cdJob.op = "ProcessDocument"
           /\ VisibleChars(cdOut.parsedFrom) \subseteq PageChars(cdJob, {"paddle", "tess"})
        \/ /\ cdJob.op = "AnalyzeITR"
           /\ \/ VisibleChars(cdOut.parsedFrom) \subseteq PageChars(cdJob, {"paddle"})
              \/ cdOut.parsedFrom = cdJob.image.tess.text

\* a PDF with a short text layer whose pages' OCR text took its place
C26_Witness ==
    /\ cdPhase = "returned"
    /\ cdJob.op = "ProcessDocument"
    /\ VisibleChars(cdJob.pdf.textLayer) # {}
    /\ "parsedFrom" \in DOMAIN cdOut
    /\ VisibleChars(cdOut.parsedFrom) # {}
    /\ VisibleChars(cdOut.parsedFrom) \cap VisibleChars(cdJob.pdf.textLayer) = {}

\* a weak text layer of an ITR replaced by PaddleOCR's text of the pages
C26_WitnessITR ==
    /\ cdPhase = "returned"
    /\ cdJob.op = "AnalyzeITR"
    /\ VisibleChars(cdJob.pdf.textLayer) # {}
    /\ "parsedFrom" \in DOMAIN cdOut
    /\ VisibleChars(cdOut.parsedFrom) # {}
    /\ VisibleChars(cdOut.parsedFrom) \cap VisibleChars(cdJob.pdf.textLayer) = {}

\* C27: CompareNames is symmetric: the verdict for a pair of names is the
\* verdict for the pair in the other order, also when both names have the
\* same number of words.
C27_CompareNamesSymmetric ==
    nmPhase = "done" => nmResult = CompareNames(nmB, nmA)

\* a name that is empty or normalises to the empty string: spaces and
\* periods only
BlankName(s) == NormalizeString(s) = <<>>

\* C28: CompareNames returns false whenever one of the names is empty or is
\* made of spaces and periods only, and its word ratio is never taken over
\* zero words.
C28_BlankNamesNeverMatch ==
    nmPhase = "done" =>
        /\ (BlankName(nmA) \/ BlankName(nmB)) => nmResult = FALSE
        /\ (/\ nmA # <<>> /\ nmB # <<>>
            /\ ~Contains(NormalizeString(nmA), NormalizeString(nmB))
            /\ ~Contains(NormalizeString(nmB), NormalizeString(nmA))) =>
              Len(Fields(ToLower(nmA))) > 0 /\ Len(Fields(ToLower(nmB))) > 0

\* C29: ProcessEmployeeDocs reports NameMatch (CompanyMatch) only when a
\* name (company) was recovered from both the employee ID card and the
\* appointment letter and the two are equal ignoring case; two values that
\* were not recovered are not a match.
C29_MatchOnlyOnRecoveredValues ==
    (cdPhase = "returned" /\ cdJob.op = "ProcessEmployeeDocs" /\ ~cdOut.err) =>
        /\ cdOut.Validation.NameMatch =>
              /\ cdOut.EmployeeIDData.Name # <<>>
              /\ cdOut.AppointmentLetterData.Name # <<>>
              /\ ToLower(cdOut.EmployeeIDData.Name)
                    = ToLower(cdOut.AppointmentLetterData.Name)
        /\ cdOut.Validation.CompanyMatch =>
              /\ cdOut.EmployeeIDData.Company # <<>>
              /\ cdOut.AppointmentLetterData.Company # <<>>
              /\ ToLower(cdOut.EmployeeIDData.Company)
                    = ToLower(cdOut.AppointmentLetterData.Company)

\* the manifest entries with a matching upload that declare the kind dt
DeclaredAs(dt) ==
    {i \in Tasks : InFileMap(documents[i]) /\ documents[i].job.DocType = dt}

\* the record ProcessDocument returns for the entry i
RecordOf(i) == ParsedRecord(documents[i], ProcessDocument(documents[i].job).ret)

\* the positions of the list recs that hold the record rec
PositionsOf(recs, rec) == {k \in 1..Len(recs) : recs[k] = rec}

\* recs holds one record for every entry of E, and nothing else
OneRecordPerEntry(recs, E) ==
    /\ Len(recs) = Cardinality(E)
    /\ \A k \in 1..Len(recs) : \E i \in E : recs[k] = RecordOf(i)
    /\ \A i \in E :
          Cardinality(PositionsOf(recs, RecordOf(i)))
              = Cardinality({j \in E : RecordOf(j) = RecordOf(i)})

\* C30: when VerifyIncome returns a response, in every interleaving its
\* salary slips are one record for each manifest entry with a matching
\* upload declared as salary_slip, its bank statements are one record for
\* each such entry declared as bank_statement, and no record is in the
\* collection of the other kind.
C30_PartitionByDeclaredKind ==
    (mainPc = "returned" /\ ~response.err) =>
        /\ OneRecordPerEntry(response.SalarySlips, DeclaredAs("salary_slip"))
        /\ OneRecordPerEntry(response.BankStatements, DeclaredAs("bank_statement"))
        /\ \A k \in 1..Len(response.SalarySlips) :
              \A i \in DeclaredAs("bank_statement") :
                  response.SalarySlips[k] # RecordOf(i)
        /\ \A k \in 1..Len(response.BankStatements) :
              \A i \in DeclaredAs("salary_slip") :
                  response.BankStatements[k] # RecordOf(i)

\* a response to a manifest of three entries, one declared as a salary slip
\* and two as bank statements
C30_Witness ==
    /\ mainPc = "returned"
    /\ ~response.err
    /\ Len(documents) = 3
    /\ Cardinality(DeclaredAs("salary_slip")) = 1
    /\ Cardinality(DeclaredAs("bank_statement")) = 2
    /\ Len(response.SalarySlips) = 1
    /\ Len(response.BankStatements) = 2

=============================================================================
